---- MODULE Spec2Model ----
(***************************************************************************)
(* Artifact acquisition and caching of the Roboflow inference models       *)
(* (inference/core/models/roboflow.py, inference/core/roboflow_api.py,     *)
(* inference/models/doctr/doctr_model.py).                                 *)
(*                                                                         *)
(* Python values are modelled as follows: a str that the code splits or    *)
(* joins is a sequence of tokens, None is the string "None", a dict is a   *)
(* TLA+ function/record, an exception is the name of its class.            *)
(***************************************************************************)
EXTENDS Integers, Sequences, FiniteSets, TLC

VARIABLES
    AWS_ACCESS_KEY_ID,      \* inference.core.env, read at import
    AWS_SECRET_ACCESS_KEY,  \* inference.core.env, read at import
    LAMBDA_FLAG,            \* inference.core.env LAMBDA (LAMBDA is a TLA+ keyword)
    API_KEY,                \* inference.core.env, read at import
    S3_CLIENT,              \* module global of roboflow.py, set once at import
    cache,                  \* the files on disk under MODEL_CACHE_DIR
    self,                   \* the model instance: endpoint (model id) and api_key
    call,                   \* the fetch call in progress, or the last one
    req,                    \* the request the latest step issued
    api_fetched,            \* history: the API fetch completed since the last clear
    bucket_available,       \* the value is_model_artefacts_bucket_available returned
    environment,            \* the environment a class list is derived from
    class_names,            \* the outcome of get_class_names_from_environment_file
    given,                  \* what an operation is given: cached files, engine shape, images
    model,                  \* the attributes of the instance being initialized
    initializers            \* the threads that initialize the same model at once

vars == <<AWS_ACCESS_KEY_ID, AWS_SECRET_ACCESS_KEY, LAMBDA_FLAG, API_KEY,
          S3_CLIENT, cache, self, call, req, api_fetched, bucket_available,
          environment, class_names, given, model,
          initializers>>

fetch_vars == <<cache, self, call, req, api_fetched>>

load_vars == <<environment, class_names>>

model_vars == <<given, model, initializers>>

env_vars == <<AWS_ACCESS_KEY_ID, AWS_SECRET_ACCESS_KEY, LAMBDA_FLAG, API_KEY, S3_CLIENT>>

-----------------------------------------------------------------------------
(* Python truthiness and the value of `a and b`.                           *)

None == "None"

Truthy(v) == v \notin {"None", "", "False"}

PyAnd(a, b) == IF Truthy(a) THEN b ELSE a

\* os.getenv values: unset, set to the empty string, set
EnvStrings == {"None", "", "set"}

\* str2bool values of the LAMBDA setting
EnvBools == {"True", "False"}

-----------------------------------------------------------------------------
(* Model identities and variants.                                          *)

ONNX_A == <<"a", "/", "1">>
ONNX_B == <<"b", "/", "2">>
DOCTR_DET == <<"doctr_det", "/", "db_resnet50">>

ModelIds == {ONNX_A, ONNX_B, DOCTR_DET}

\* the class a model identity is constructed with
ClassOf(model_id) ==
    IF model_id = DOCTR_DET THEN "DocTRDet" ELSE "OnnxRoboflowInferenceModel"

IsCoreModel(model_id) == ClassOf(model_id) = "DocTRDet"

NotImplementedError == "NotImplementedError"

get_infer_bucket_file_list(model_id) ==
    IF IsCoreModel(model_id)
    THEN <<"model.pt">>
    ELSE <<"environment.json", "class_names.txt">>

\* OnnxRoboflowInferenceModel overrides the property; RoboflowCoreModel and
\* DocTRDet do not, so the base property raises NotImplementedError there.
weights_file(model_id) ==
    IF IsCoreModel(model_id) THEN NotImplementedError ELSE "weights.onnx"

\* defined when weights_file does not raise
get_all_required_infer_bucket_file(model_id) ==
    Append(get_infer_bucket_file_list(model_id), weights_file(model_id))

SeqToSet(s) == {s[i] : i \in 1..Len(s)}

-----------------------------------------------------------------------------
(* Cache store: inference.core.cache.model_artefacts.                      *)

MODEL_CACHE_DIR == "MODEL_CACHE_DIR"

NoModelId == <<"None">>

get_cache_dir(model_id) ==
    IF model_id = NoModelId
    THEN <<MODEL_CACHE_DIR>>
    ELSE <<MODEL_CACHE_DIR, "/">> \o model_id

get_cache_file_path(file, model_id) == get_cache_dir(model_id) \o <<"/", file>>

FileExists(c, path) == \E e \in c : e.path = path

FileContent(c, path) == (CHOOSE e \in c : e.path = path).content

are_all_files_cached(c, files, model_id) ==
    \A i \in 1..Len(files) : FileExists(c, get_cache_file_path(files[i], model_id))

WriteFile(c, path, content) ==
    {e \in c : e.path # path} \cup {[path |-> path, content |-> content]}

save_bytes_in_cache(c, content, file, model_id) ==
    WriteFile(c, get_cache_file_path(file, model_id), [kind |-> "bytes", body |-> content])

save_json_in_cache(c, content, file, model_id) ==
    WriteFile(c, get_cache_file_path(file, model_id), [kind |-> "json", value |-> content])

save_text_lines_in_cache(c, content, file, model_id) ==
    WriteFile(c, get_cache_file_path(file, model_id), [kind |-> "lines", lines |-> content])

IsPrefix(p, s) == Len(p) <= Len(s) /\ SubSeq(s, 1, Len(p)) = p

\* removes the whole per-model directory
clear_cache(c, model_id) ==
    {e \in c : ~IsPrefix(get_cache_dir(model_id) \o <<"/">>, e.path)}

-----------------------------------------------------------------------------
(* HTTP: requests.get and the functions of roboflow_api.py.                *)
(* A reply is what the network does with one request: the transport either *)
(* fails (ConnectionError, or another exception such as ReadTimeout) or    *)
(* delivers a response with a status, a body and whether the body is JSON. *)

Return(v) == [kind |-> "return", value |-> v]

ReturnNone == [kind |-> "return_none"]

Raise(e) == [kind |-> "raise", exc |-> e]

TransportFailure(t) == [transport |-> t]

Response(status, is_json, body) ==
    [transport |-> "ok", status |-> status, is_json |-> is_json, body |-> body]

\* requests.Response.raise_for_status raises for 4xx and 5xx
IsErrorStatus(status) == status >= 400

\* raise_from_lambda always raises exception_type
raise_from_lambda(inner_error, exception_type) == Raise(exception_type)

\* every path of the handler ends in the raise of ModelDataFetchingError
handle_model_data_fetching_error(error) == Raise("ModelDataFetchingError")

\* the handlers the decorated functions of roboflow_api.py pass to the wrapper
ApplyHandler(handler, error) ==
    CASE handler = "RoboflowAPIConnectionError" ->
            raise_from_lambda(error, "RoboflowAPIConnectionError")
      [] handler = "RoboflowAPIRequestError" ->
            raise_from_lambda(error, "RoboflowAPIRequestError")
      [] handler = "handle_model_data_fetching_error" ->
            handle_model_data_fetching_error(error)
      [] handler = "DatasetLoadError" ->
            raise_from_lambda(error, "DatasetLoadError")

\* a wrapper whose connection handler returns instead of raising
wrap_roboflow_api_errors_swallowing_connection_error(on_connection_error, on_http_error, outcome) ==
    IF outcome.kind # "raise" THEN outcome
    ELSE CASE outcome.exc = "ConnectionError" -> ReturnNone
           [] outcome.exc = "HTTPError" -> ApplyHandler(on_http_error, outcome.exc)
           [] outcome.exc = "InvalidJSONError" ->
                 Raise("MalformedRoboflowAPIResponseError")
           [] OTHER -> outcome

\* wrapper(*args): the outcome of the wrapped function's body is `outcome`.
\* A handler that returns instead of raising lets the wrapper fall off the
\* except clause and return None.
wrap_roboflow_api_errors(on_connection_error, on_http_error, outcome) ==
    IF outcome.kind # "raise" THEN outcome
    ELSE CASE outcome.exc = "ConnectionError" ->
                 (IF ApplyHandler(on_connection_error, outcome.exc).kind = "raise"
                  THEN ApplyHandler(on_connection_error, outcome.exc)
                  ELSE ReturnNone)
           [] outcome.exc = "HTTPError" ->
                 (IF ApplyHandler(on_http_error, outcome.exc).kind = "raise"
                  THEN ApplyHandler(on_http_error, outcome.exc)
                  ELSE ReturnNone)
           [] outcome.exc = "InvalidJSONError" ->
                 Raise("MalformedRoboflowAPIResponseError")
           [] OTHER -> outcome

\* body of get_roboflow_model_data: requests.get, raise_for_status, json()
get_roboflow_model_data_body(reply) ==
    IF reply.transport # "ok" THEN Raise(reply.transport)
    ELSE IF IsErrorStatus(reply.status) THEN Raise("HTTPError")
    ELSE IF ~reply.is_json THEN Raise("InvalidJSONError")
    ELSE Return(reply.body)

get_roboflow_model_data(reply) ==
    wrap_roboflow_api_errors("RoboflowAPIConnectionError",
                             "handle_model_data_fetching_error",
                             get_roboflow_model_data_body(reply))

\* body of get_from_roboflow_api: requests.get, then json() or the response
get_from_roboflow_api_body(reply, json_response) ==
    IF reply.transport # "ok" THEN Raise(reply.transport)
    ELSE IF json_response
         THEN (IF ~reply.is_json THEN Raise("InvalidJSONError") ELSE Return(reply.body))
         ELSE Return([status |-> reply.status, content |-> reply.body])

get_from_roboflow_api(reply, json_response) ==
    wrap_roboflow_api_errors("RoboflowAPIConnectionError",
                             "RoboflowAPIRequestError",
                             get_from_roboflow_api_body(reply, json_response))

-----------------------------------------------------------------------------
(* What the network can answer.                                            *)

\* the optional and required keys of the "ort" entry of the metadata response
OrtKeys == {"classes", "model", "environment", "colors"}

\* metadata bodies of the ORT endpoint: with or without "ort", any key subset
OrtBodies ==
    {[keys |-> {}, ort |-> {}]} \cup {[keys |-> {"ort"}, ort |-> K] : K \in SUBSET OrtKeys}

\* bodies are records, so that any two of them can be compared
ErrorDoc == [error |-> "not authorized"]

HtmlBody == [text |-> "<html>"]

WeightsBytes == [bytes |-> "weights"]

AccessDeniedBody == [bytes |-> "AccessDenied"]

JsonNull == [null |-> TRUE]

OrtMetadataReplies ==
    {TransportFailure("ConnectionError"), TransportFailure("ReadTimeout"),
     Response(401, TRUE, ErrorDoc), Response(200, FALSE, HtmlBody)}
    \cup {Response(200, TRUE, b) : b \in OrtBodies}

\* the environment descriptor the server stores for a model
EnvironmentDoc == [PREPROCESSING |-> "{}", CLASS_MAP |-> "dict"]

EnvironmentReplies ==
    {TransportFailure("ConnectionError"),
     Response(200, TRUE, EnvironmentDoc), Response(200, FALSE, HtmlBody),
     Response(403, TRUE, ErrorDoc), Response(403, FALSE, HtmlBody)}

WeightsReplies ==
    {TransportFailure("ConnectionError"),
     Response(200, FALSE, WeightsBytes), Response(403, FALSE, AccessDeniedBody)}

\* values of the inline metadata
ApiClasses == <<"cat", "dog">>

ApiColors == [cat |-> "#FF0000", dog |-> "#00FF00"]

-----------------------------------------------------------------------------
(* The fetch step runs as a sequence of steps, each issuing at most one    *)
(* request. A step's result is the cache it leaves, where the call stands  *)
(* (pc: a next step, "done" when the call returned, "raised" when it       *)
(* raised), the exception, the request it issued and the call's locals.    *)

\* an entry of the request log: the request, what the network did with it,
\* what the body of the called function raised, and how the call ended
LogEntry(op, arg, reply, body, outcome) ==
    [op |-> op, arg |-> arg, reply |-> reply,
     raised |-> IF body.kind = "raise" THEN body.exc ELSE None,
     result |-> outcome.kind,
     exc |-> IF outcome.kind = "raise" THEN outcome.exc ELSE None]

NoRequest ==
    [op |-> "none", arg |-> <<>>, reply |-> <<>>, raised |-> None,
     result |-> "return", exc |-> None]

MetadataRequest(endpoint_type, api_key, reply) ==
    LogEntry("metadata", [endpoint_type |-> endpoint_type, api_key |-> api_key], reply,
             get_roboflow_model_data_body(reply), get_roboflow_model_data(reply))

GetRequest(url, reply, json_response) ==
    LogEntry("GET", url, reply, get_from_roboflow_api_body(reply, json_response),
             get_from_roboflow_api(reply, json_response))

BulkRequest(keys, target_dir, fail_at, error) ==
    LogEntry("bulk", [keys |-> keys, target_dir |-> target_dir], [fail_at |-> fail_at],
             IF error = None THEN ReturnNone ELSE Raise(error),
             IF error = None THEN ReturnNone ELSE Raise(error))

\* the locals of a call that outlive a step
NoLocals ==
    [ort_data |-> {}, environment |-> ReturnNone,
     api_data |-> ReturnNone, n |-> 0, i |-> 0]

Step(c, pc, error, request, locals) ==
    [cache |-> c, pc |-> pc, error |-> error, req |-> request, locals |-> locals]

Returned(c, request) == Step(c, "done", None, request, NoLocals)

Raised(c, error, request) == Step(c, "raised", error, request, NoLocals)

\* d[k] = v on a dict
SetItem(d, k, v) == [x \in DOMAIN d \cup {k} |-> IF x = k THEN v ELSE d[x]]

\* an availability test that leaves the deployment flag out
is_model_artefacts_bucket_available_without_flag ==
    PyAnd(PyAnd(AWS_ACCESS_KEY_ID, AWS_SECRET_ACCESS_KEY),
          IF S3_CLIENT # None THEN "True" ELSE "False")

is_model_artefacts_bucket_available ==
    PyAnd(PyAnd(PyAnd(AWS_ACCESS_KEY_ID, AWS_SECRET_ACCESS_KEY), LAMBDA_FLAG),
          IF S3_CLIENT # None THEN "True" ELSE "False")

\* inference.core.utils.s3: downloads the keys in order into target_dir, each
\* under its base name; a failure of the fail_at-th download raises and leaves
\* the files downloaded before it (fail_at = 0: no failure)
download_s3_files_to_directory(c, keys, target_dir, fail_at) ==
    LET n == IF fail_at = 0 THEN Len(keys) ELSE fail_at - 1
        Put[i \in 0..Len(keys)] ==
            IF i = 0 THEN c
            ELSE WriteFile(Put[i - 1], target_dir \o <<"/", keys[i][Len(keys[i])]>>,
                           [kind |-> "object", key |-> keys[i]])
    IN  [cache |-> Put[n], error |-> IF fail_at = 0 THEN None ELSE "ClientError"]

\* a bulk download without the except clause: the store's error propagates
download_model_artefacts_from_s3_without_except(model_id, c) ==
    IF weights_file(model_id) = NotImplementedError
    THEN {Raised(c, NotImplementedError, NoRequest)}
    ELSE LET infer_bucket_files == get_all_required_infer_bucket_file(model_id)
             cache_directory == get_cache_dir(model_id)
             s3_keys == [i \in 1..Len(infer_bucket_files) |->
                            model_id \o <<"/", infer_bucket_files[i]>>]
         IN  {LET r == download_s3_files_to_directory(c, s3_keys, cache_directory, fail_at)
                  request == BulkRequest(s3_keys, cache_directory, fail_at, r.error)
              IN  IF r.error = None
                  THEN Returned(r.cache, request)
                  ELSE Raised(r.cache, r.error, request)
              : fail_at \in 0..Len(s3_keys)}

\* everything is inside the try, so NotImplementedError of weights_file is
\* wrapped like a failure of the download
download_model_artefacts_from_s3(model_id, c) ==
    IF weights_file(model_id) = NotImplementedError
    THEN {Raised(c, "ModelArtefactError", NoRequest)}
    ELSE LET infer_bucket_files == get_all_required_infer_bucket_file(model_id)
             cache_directory == get_cache_dir(model_id)
             s3_keys == [i \in 1..Len(infer_bucket_files) |->
                            model_id \o <<"/", infer_bucket_files[i]>>]
         IN  {LET r == download_s3_files_to_directory(c, s3_keys, cache_directory, fail_at)
                  request == BulkRequest(s3_keys, cache_directory, fail_at, r.error)
              IN  IF r.error = None
                  THEN Returned(r.cache, request)
                  ELSE Raised(r.cache, "ModelArtefactError", request)
              : fail_at \in 0..Len(s3_keys)}

\* lines 281-303: the metadata request and the validation of its response
download_model_artefacts_from_roboflow_api(model_id, api_key, c) ==
    {LET api == get_roboflow_model_data(reply)
         request == MetadataRequest("ort", api_key, reply)
     IN  IF api.kind = "raise" THEN Raised(c, api.exc, request)
         ELSE IF api.kind = "return_none" THEN Raised(c, "AttributeError", request)
         ELSE IF "ort" \notin api.value.keys THEN Raised(c, "ModelArtefactError", request)
         ELSE LET api_data == api.value.ort
                  c1 == IF "classes" \in api_data
                        THEN save_text_lines_in_cache(c, ApiClasses, "class_names.txt",
                                                      NoModelId)
                        ELSE c
              IN  IF "model" \notin api_data
                  THEN Raised(c1, "ModelArtefactError", request)
                  ELSE IF "environment" \notin api_data
                  THEN Raised(c1, "ModelArtefactError", request)
                  ELSE Step(c1, "get_environment", None, request,
                            [NoLocals EXCEPT !.ort_data = api_data])
     : reply \in OrtMetadataReplies}

\* line 304: environment = get_from_roboflow_api(api_data["environment"], json_response=True)
OrtGetEnvironment(model_id, c, locals) ==
    {LET fetched == get_from_roboflow_api(reply, TRUE)
         request == GetRequest("environment", reply, TRUE)
     IN  IF fetched.kind = "raise" THEN Raised(c, fetched.exc, request)
         ELSE Step(c, "get_weights", None, request,
                   [locals EXCEPT !.environment = fetched])
     : reply \in EnvironmentReplies}

\* lines 305-316: the weights GET, then the weights and the environment are saved
OrtGetWeights(model_id, c, locals) ==
    {LET model_weights_response == get_from_roboflow_api(reply, FALSE)
         request == GetRequest("model", reply, FALSE)
     IN  IF model_weights_response.kind = "raise"
         THEN Raised(c, model_weights_response.exc, request)
         ELSE IF model_weights_response.kind = "return_none"
         THEN Raised(c, "AttributeError", request)
         ELSE LET c2 == save_bytes_in_cache(c, model_weights_response.value.content,
                                            weights_file(model_id), model_id)
                  merged ==
                      IF locals.environment.kind = "return_none" THEN JsonNull
                      ELSE IF "colors" \in locals.ort_data
                      THEN SetItem(locals.environment.value, "COLORS", ApiColors)
                      ELSE locals.environment.value
              IN  IF locals.environment.kind = "return_none" /\ "colors" \in locals.ort_data
                  THEN Raised(c2, "TypeError", request)
                  ELSE Returned(save_json_in_cache(c2, merged, "environment.json",
                                                   NoModelId),
                                request)
     : reply \in WeightsReplies}

\* a fetch step that does not look at the cache first
cache_model_artefacts_without_cache_check(model_id, api_key, c) ==
    IF Truthy(is_model_artefacts_bucket_available)
    THEN download_model_artefacts_from_s3(model_id, c)
    ELSE download_model_artefacts_from_roboflow_api(model_id, api_key, c)

\* a fetch step that falls back to the API path when the bulk download fails
cache_model_artefacts_with_api_fallback(model_id, api_key, c) ==
    IF are_all_files_cached(c, get_all_required_infer_bucket_file(model_id), model_id)
    THEN {Returned(c, NoRequest)}
    ELSE IF Truthy(is_model_artefacts_bucket_available)
         THEN UNION {IF r.pc = "raised"
                     THEN download_model_artefacts_from_roboflow_api(model_id, api_key, r.cache)
                     ELSE {r}
                     : r \in download_model_artefacts_from_s3(model_id, c)}
         ELSE download_model_artefacts_from_roboflow_api(model_id, api_key, c)

\* lines 248-255: the first step of the call from cache c
cache_model_artefacts(model_id, api_key, c) ==
    IF are_all_files_cached(c, get_all_required_infer_bucket_file(model_id), model_id)
    THEN {Returned(c, NoRequest)}
    ELSE IF Truthy(is_model_artefacts_bucket_available)
         THEN download_model_artefacts_from_s3(model_id, c)
         ELSE download_model_artefacts_from_roboflow_api(model_id, api_key, c)

-----------------------------------------------------------------------------
(* The core-model variant (RoboflowCoreModel, DocTRDet).                   *)

MaxBlobs == 2

BlobFiles == {"model.pt", "vocab.pt"}

\* a pre-signed URL of a weight blob, as the tokens str.split works on
BlobUrl(file) == <<"https://storage", "/", "doctr_det", "/", file, "?", "signature">>

\* api_data["weights"]: the i-th key of the dict maps to the i-th URL
WeightsDicts ==
    UNION {[1..n -> {BlobUrl(f) : f \in BlobFiles}] : n \in 0..MaxBlobs}

CoreBodies ==
    {[keys |-> {}, weights |-> <<>>]}
    \cup {[keys |-> {"weights"}, weights |-> d] : d \in WeightsDicts}

CoreMetadataReplies ==
    {TransportFailure("ConnectionError"), Response(401, TRUE, ErrorDoc)}
    \cup {Response(200, TRUE, b) : b \in CoreBodies}

\* perf_counter() - t1 of one download, in seconds
Elapsed == {120, 121}

REFRESH_THRESHOLD == 120

\* inference.core.utils.url_utils, no license-server proxy configured
wrap_url(url) == url

\* s.split(sep)[0]
SplitFirst(s, sep) ==
    IF \E i \in 1..Len(s) : s[i] = sep
    THEN SubSeq(s, 1, (CHOOSE i \in 1..Len(s) :
                          s[i] = sep /\ \A j \in 1..(i - 1) : s[j] # sep) - 1)
    ELSE s

\* s.split(sep)[-1]
SplitLast(s, sep) ==
    IF \E i \in 1..Len(s) : s[i] = sep
    THEN SubSeq(s, (CHOOSE i \in 1..Len(s) :
                       s[i] = sep /\ \A j \in (i + 1)..Len(s) : s[j] # sep) + 1, Len(s))
    ELSE s

\* weights_url.split("?")[0].split("/")[-1]; a file name is one token
BlobFilename(weights_url) ==
    LET name == SplitLast(SplitFirst(weights_url, "?"), "/")
    IN  IF Len(name) = 1 THEN name[1] ELSE ""

\* the loop head at key i of the n keys of the first response: the next
\* iteration, or the return of the call after the last key
CoreNext(c, request, locals, i) ==
    IF i > locals.n
    THEN Returned(c, request)
    ELSE Step(c, "download_blob", None, request, [locals EXCEPT !.i = i])

\* lines 559-569: the metadata request, its validation, the loop head
download_mode_from_roboflow_api(model_id, api_key, c) ==
    {LET api_data == get_roboflow_model_data(reply)
         request == MetadataRequest("core_model", api_key, reply)
     IN  IF api_data.kind = "raise" THEN Raised(c, api_data.exc, request)
         ELSE IF api_data.kind = "return_none" THEN Raised(c, "TypeError", request)
         ELSE IF "weights" \notin api_data.value.keys
         THEN Raised(c, "ModelArtefactError", request)
         ELSE CoreNext(c, request,
                       [NoLocals EXCEPT !.api_data = api_data,
                                        !.n = Len(api_data.value.weights)],
                       1)
     : reply \in CoreMetadataReplies}

\* lines 570-579: one iteration up to the test of the elapsed time; the
\* key is looked up in the response api_data is bound to now
CoreDownloadBlob(model_id, c, locals) ==
    IF locals.api_data.kind # "return" THEN {Raised(c, "TypeError", NoRequest)}
    ELSE IF "weights" \notin locals.api_data.value.keys
    THEN {Raised(c, "KeyError", NoRequest)}
    ELSE IF locals.i \notin DOMAIN locals.api_data.value.weights
    THEN {Raised(c, "KeyError", NoRequest)}
    ELSE
      LET weights_url == wrap_url(locals.api_data.value.weights[locals.i])
      IN  UNION {
            LET model_weights_response == get_from_roboflow_api(reply, FALSE)
                request == GetRequest(weights_url, reply, FALSE)
            IN  IF model_weights_response.kind = "raise"
                THEN {Raised(c, model_weights_response.exc, request)}
                ELSE IF model_weights_response.kind = "return_none"
                THEN {Raised(c, "AttributeError", request)}
                ELSE
                  LET c1 == save_bytes_in_cache(c, model_weights_response.value.content,
                                                BlobFilename(weights_url), model_id)
                  IN  {IF elapsed > REFRESH_THRESHOLD
                       THEN Step(c1, "refresh", None, request, locals)
                       ELSE CoreNext(c1, request, locals, locals.i + 1)
                       : elapsed \in Elapsed}
            : reply \in WeightsReplies}

\* lines 583-588: the metadata request is reissued and api_data rebound
CoreRefresh(model_id, api_key, c, locals) ==
    {LET api_data == get_roboflow_model_data(reply)
         request == MetadataRequest("core_model", api_key, reply)
     IN  IF api_data.kind = "raise" THEN Raised(c, api_data.exc, request)
         ELSE CoreNext(c, request, [locals EXCEPT !.api_data = api_data], locals.i + 1)
     : reply \in CoreMetadataReplies}

\* a fetch step that takes the API path whatever the bulk source
download_weights_from_api_only(model_id, api_key, c) ==
    IF are_all_files_cached(c, get_infer_bucket_file_list(model_id), model_id)
    THEN {Returned(c, NoRequest)}
    ELSE download_mode_from_roboflow_api(model_id, api_key, c)

\* lines 544-556: the first step of the call from cache c
download_weights(model_id, api_key, c) ==
    IF are_all_files_cached(c, get_infer_bucket_file_list(model_id), model_id)
    THEN {Returned(c, NoRequest)}
    ELSE IF Truthy(is_model_artefacts_bucket_available)
         THEN download_model_artefacts_from_s3(model_id, c)
         ELSE download_mode_from_roboflow_api(model_id, api_key, c)

-----------------------------------------------------------------------------
(* Class names from the environment (lines 754-771). A Python value is a   *)
(* record with its type; a str key is the sequence of its characters, a    *)
(* digit character being the number it shows (the order of the digits'     *)
(* code points is the order of these numbers).                             *)

PyNone == [type |-> "NoneType"]

PyStr(v) == [type |-> "str", value |-> v]

PyDict(items) == [type |-> "dict", items |-> items]

MaxClassKey == 11

MaxClasses == 3

ClassLabels == {"cat", "dog"}

RECURSIVE DecimalString(_)
\* str(n) of a natural number
DecimalString(n) ==
    IF n < 10 THEN <<n>> ELSE Append(DecimalString(n \div 10), n % 10)

RECURSIVE IntOfString(_)
\* int(s) of a string of digits
IntOfString(s) ==
    IF Len(s) = 0 THEN 0
    ELSE 10 * IntOfString(SubSeq(s, 1, Len(s) - 1)) + s[Len(s)]

ClassKeys == {DecimalString(n) : n \in 0..MaxClassKey}

ClassMaps ==
    UNION {[K -> ClassLabels] : K \in {K \in SUBSET ClassKeys : Cardinality(K) <= MaxClasses}}

\* the environments get_class_names_from_environment_file can be given
Environments ==
    {PyNone,
     PyDict([PREPROCESSING |-> PyStr("{}")]),
     PyDict([PREPROCESSING |-> PyStr("{}"), CLASS_MAP |-> PyStr("cat,dog")])}
    \cup {PyDict([PREPROCESSING |-> PyStr("{}"), CLASS_MAP |-> PyDict(m)]) : m \in ClassMaps}

\* a < b on str: at the first index where they differ a has the smaller
\* character, or a is a proper prefix of b
StrLess(a, b) ==
    \E k \in 1..(Len(a) + 1) :
        /\ k <= Len(b)
        /\ \A j \in 1..(k - 1) : a[j] = b[j]
        /\ (k = Len(a) + 1 \/ a[k] < b[k])

RECURSIVE sorted(_)
\* sorted(keys) of a set of distinct str keys
sorted(keys) ==
    IF keys = {} THEN <<>>
    ELSE LET least == CHOOSE x \in keys : \A y \in keys \ {x} : StrLess(x, y)
         IN  <<least>> \o sorted(keys \ {least})

class_mapping_not_available_in_environment(env) ==
    \/ "CLASS_MAP" \notin DOMAIN env.items
    \/ env.items["CLASS_MAP"].type # "dict"

RECURSIVE SortedByNumber(_)
SortedByNumber(keys) ==
    IF keys = {} THEN <<>>
    ELSE LET least == CHOOSE x \in keys :
                         \A y \in keys \ {x} : IntOfString(x) < IntOfString(y)
         IN  <<least>> \o SortedByNumber(keys \ {least})

\* the keys taken in numeric order
get_class_names_in_numeric_order(env) ==
    IF env.type = "NoneType" THEN Raise("ModelArtefactError")
    ELSE IF class_mapping_not_available_in_environment(env)
    THEN Raise("ModelArtefactError")
    ELSE LET class_map == env.items["CLASS_MAP"].items
             keys == SortedByNumber(DOMAIN class_map)
         IN  Return([i \in 1..Len(keys) |-> class_map[keys[i]]])

get_class_names_from_environment_file(env) ==
    IF env.type = "NoneType" THEN Raise("ModelArtefactError")
    ELSE IF class_mapping_not_available_in_environment(env)
    THEN Raise("ModelArtefactError")
    ELSE LET class_map == env.items["CLASS_MAP"].items
             keys == sorted(DOMAIN class_map)
         IN  Return([i \in 1..Len(keys) |-> class_map[keys[i]]])

-----------------------------------------------------------------------------
(* Instances and calls.                                                    *)

\* __init__ line 114
InstanceApiKey(api_key) == IF Truthy(api_key) THEN api_key ELSE API_KEY

\* a check that asks for an API key whatever the credentials are
InitRaisesMissingApiKeyWithoutKey(api_key) == ~Truthy(InstanceApiKey(api_key))

\* __init__ lines 115-120
InitRaisesMissingApiKey(api_key) ==
    /\ ~Truthy(InstanceApiKey(api_key))
    /\ ~Truthy(PyAnd(PyAnd(AWS_SECRET_ACCESS_KEY, AWS_ACCESS_KEY_ID), LAMBDA_FLAG))

\* the api_key argument of a constructor: omitted, or a key
ApiKeyArgs == {"None", "key"}

NoInstance == [endpoint |-> <<>>, api_key |-> None]

\* the files the variant of model_id needs, and where they belong
ManifestOf(model_id) ==
    IF IsCoreModel(model_id)
    THEN {"model.pt"}
    ELSE {"weights.onnx", "environment.json", "class_names.txt"}

ModelDirectory(model_id) == <<MODEL_CACHE_DIR, "/">> \o model_id

ManifestPresent(c, model_id) ==
    \A f \in ManifestOf(model_id) :
        \E e \in c : e.path = ModelDirectory(model_id) \o <<"/", f>>

FetchOps == {"cache_model_artefacts", "download_weights"}

NotFetched == [done |-> FALSE, ort_data |-> {}]

NoCall ==
    [op |-> "none", pc |-> "done", error |-> None, locals |-> NoLocals,
     manifest_present |-> FALSE, fetched_before |-> FALSE, cache_changed |-> FALSE,
     n_bulk |-> 0, n_metadata |-> 0, n_get |-> 0]

Idle == call.pc \in {"done", "raised"}

Count(request, op) == IF request.op = op THEN 1 ELSE 0

\* a call of the fetch step starts: its first step had result r
Enter(op, r) ==
    /\ cache' = r.cache
    /\ req' = r.req
    /\ call' = [op |-> op, pc |-> r.pc, error |-> r.error, locals |-> r.locals,
                manifest_present |-> ManifestPresent(cache, self.endpoint),
                fetched_before |-> api_fetched.done,
                cache_changed |-> r.cache # cache,
                n_bulk |-> Count(r.req, "bulk"),
                n_metadata |-> Count(r.req, "metadata"),
                n_get |-> Count(r.req, "GET")]
    /\ api_fetched' = IF r.pc = "done" /\ r.req.op = "metadata"
                      THEN [done |-> TRUE, ort_data |-> {}]
                      ELSE api_fetched
    /\ UNCHANGED <<env_vars, self, bucket_available, load_vars, model_vars>>

\* the call in progress takes its next step, with result r
Continue(r) ==
    /\ cache' = r.cache
    /\ req' = r.req
    /\ call' = [call EXCEPT !.pc = r.pc, !.error = r.error, !.locals = r.locals,
                            !.cache_changed = @ \/ r.cache # cache,
                            !.n_bulk = @ + Count(r.req, "bulk"),
                            !.n_metadata = @ + Count(r.req, "metadata"),
                            !.n_get = @ + Count(r.req, "GET")]
    /\ api_fetched' = IF r.pc = "done"
                      THEN [done |-> TRUE, ort_data |-> call.locals.ort_data]
                      ELSE api_fetched
    /\ UNCHANGED <<env_vars, self, bucket_available, load_vars, model_vars>>

\* the OnnxRoboflowInferenceModel instance runs the fetch step
CallCacheModelArtefacts ==
    /\ Idle
    /\ ~IsCoreModel(self.endpoint)
    /\ \E r \in cache_model_artefacts(self.endpoint, self.api_key, cache) :
          Enter("cache_model_artefacts", r)

GetEnvironment ==
    /\ call.pc = "get_environment"
    /\ \E r \in OrtGetEnvironment(self.endpoint, cache, call.locals) : Continue(r)

GetWeights ==
    /\ call.pc = "get_weights"
    /\ \E r \in OrtGetWeights(self.endpoint, cache, call.locals) : Continue(r)

\* the RoboflowCoreModel instance runs the fetch step
CallDownloadWeights ==
    /\ Idle
    /\ IsCoreModel(self.endpoint)
    /\ \E r \in download_weights(self.endpoint, self.api_key, cache) :
          Enter("download_weights", r)

DownloadBlob ==
    /\ call.pc = "download_blob"
    /\ \E r \in CoreDownloadBlob(self.endpoint, cache, call.locals) : Continue(r)

RefreshMetadata ==
    /\ call.pc = "refresh"
    /\ \E r \in CoreRefresh(self.endpoint, self.api_key, cache, call.locals) : Continue(r)

\* RoboflowInferenceModel.clear_cache
CallClearCache ==
    /\ Idle
    /\ self # NoInstance
    /\ cache' = clear_cache(cache, self.endpoint)
    /\ req' = NoRequest
    /\ call' = [NoCall EXCEPT !.op = "clear_cache",
                              !.cache_changed = (clear_cache(cache, self.endpoint) # cache)]
    /\ api_fetched' = NotFetched
    /\ UNCHANGED <<env_vars, self, bucket_available, load_vars, model_vars>>

\* import of roboflow.py, lines 68-80: the client exists only if the key id
\* is set and boto3 could be imported and the client constructed
ImportSettings(key_ids, secrets, flags, api_keys) ==
    /\ AWS_ACCESS_KEY_ID \in key_ids
    /\ AWS_SECRET_ACCESS_KEY \in secrets
    /\ LAMBDA_FLAG \in flags
    /\ API_KEY \in api_keys
    /\ S3_CLIENT \in IF Truthy(PyAnd(AWS_ACCESS_KEY_ID, AWS_ACCESS_KEY_ID))
                     THEN {"client", None}
                     ELSE {None}

NothingCalled ==
    /\ cache = {}
    /\ call = NoCall
    /\ req = NoRequest
    /\ api_fetched = NotFetched
    /\ bucket_available = "not evaluated"

NothingLoaded ==
    /\ environment = PyNone
    /\ class_names = ReturnNone

\* an attribute the instance does not have yet
Unset == [type |-> "unset"]

NoInitializers == <<>>

NothingGiven ==
    /\ initializers = NoInitializers
    /\ given = Unset
    /\ model = Unset

\* the process after import and after __init__ (lines 112-126) of one model
\* instance returned without MissingApiKeyError; the cache is still empty
Init ==
    /\ ImportSettings({"None", "set"}, {"None", "set"}, EnvBools, {"None", "key"})
    /\ \E model_id \in ModelIds, api_key \in ApiKeyArgs :
          /\ ~InitRaisesMissingApiKey(api_key)
          /\ self = [endpoint |-> model_id, api_key |-> InstanceApiKey(api_key)]
    /\ NothingCalled
    /\ NothingLoaded
    /\ NothingGiven

Next ==
    \/ CallCacheModelArtefacts
    \/ GetEnvironment
    \/ GetWeights
    \/ CallDownloadWeights
    \/ DownloadBlob
    \/ RefreshMetadata
    \/ CallClearCache

Spec == Init /\ [][Next]_vars

-----------------------------------------------------------------------------
(* The settings alone: every combination the environment can hold, and the *)
(* evaluation of is_model_artefacts_bucket_available in each.              *)

EvaluateBucketAvailable ==
    /\ bucket_available' = is_model_artefacts_bucket_available
    /\ UNCHANGED <<env_vars, fetch_vars, load_vars, model_vars>>

InitSettings ==
    /\ ImportSettings(EnvStrings, EnvStrings, EnvBools, EnvStrings)
    /\ self = NoInstance
    /\ NothingCalled
    /\ NothingLoaded
    /\ NothingGiven

SpecSettings == InitSettings /\ [][EvaluateBucketAvailable]_vars

-----------------------------------------------------------------------------
(* The class list alone: every environment of the bounded set, and the     *)
(* call of get_class_names_from_environment_file on it.                    *)

CallGetClassNames ==
    /\ class_names = ReturnNone
    /\ class_names' = get_class_names_from_environment_file(environment)
    /\ UNCHANGED <<env_vars, fetch_vars, bucket_available, environment, model_vars>>

InitClassNames ==
    /\ ImportSettings({"None"}, {"None"}, {"False"}, {"key"})
    /\ self = NoInstance
    /\ NothingCalled
    /\ environment \in Environments
    /\ class_names = ReturnNone
    /\ NothingGiven

SpecClassNames == InitClassNames /\ [][CallGetClassNames]_vars

-----------------------------------------------------------------------------
(* Loading the cached artefacts (load_model_artefacts_from_cache) and the  *)
(* resolution of the input geometry (initialize_model). Python values      *)
(* carry their type; a str read by json.loads is the text of a JSON value  *)
(* or a text that is no JSON.                                              *)

\* each type keeps its value in a field of its own
PyInt(n) == [type |-> "int", int |-> n]

PyBool(b) == [type |-> "bool", bool |-> b]

PyList(elements) == [type |-> "list", elements |-> elements]

\* the str json.dumps(v)
JsonText(v) == [json |-> v]

\* a str that is not the text of a JSON value
PlainText(t) == [text |-> t]

EmptyDict == PyDict(<<>>)

\* bool(v) of a value read from JSON
PyTruthy(v) ==
    CASE v.type = "NoneType" -> FALSE
      [] v.type = "dict" -> DOMAIN v.items # {}
      [] v.type = "list" -> Len(v.elements) > 0
      [] v.type = "bool" -> v.bool
      [] v.type = "int" -> v.int # 0
      [] OTHER -> TRUE

\* json.loads(s): TypeError unless s is a str (bytes, bytearray)
json_loads(s) ==
    IF s.type # "str" THEN Raise("TypeError")
    ELSE IF "json" \in DOMAIN s.value THEN Return(s.value.json)
    ELSE Raise("JSONDecodeError")

\* int(v) of an int or of a str of digits
int(v) ==
    CASE v.type = "int" -> Return(v.int)
      [] v.type = "str" -> Return(IntOfString(v.value))
      [] OTHER -> Raise("TypeError")

\* lines 82-92
DEFAULT_COLOR_PALETTE ==
    <<"#4892EA", "#00EEC3", "#FE4EF0", "#F4004E", "#FA7200",
      "#EEEE17", "#90FF00", "#78C1D2", "#8C29FF">>

\* lines 785-790
color_mapping_available_in_environment(env) ==
    /\ env.type # "NoneType"
    /\ "COLORS" \in DOMAIN env.items
    /\ env.items["COLORS"].type = "dict"

\* the dict comprehension of lines 779-782: a name that occurs more than once
\* keeps the value of its last occurrence
DefaultColorMapping(classes) ==
    [name \in SeqToSet(classes) |->
        LET last == CHOOSE i \in 1..Len(classes) :
                        /\ classes[i] = name
                        /\ \A j \in (i + 1)..Len(classes) : classes[j] # name
        IN  DEFAULT_COLOR_PALETTE[((last - 1) % Len(DEFAULT_COLOR_PALETTE)) + 1]]

\* a mapping that hands out the palette without cycling it
get_color_mapping_without_wraparound(env, classes) ==
    IF color_mapping_available_in_environment(env)
    THEN json_loads(env.items["COLORS"])
    ELSE Return(PyDict([name \in SeqToSet(classes) |->
            LET last == CHOOSE i \in 1..Len(classes) :
                            /\ classes[i] = name
                            /\ \A j \in (i + 1)..Len(classes) : classes[j] # name
            IN  IF last <= Len(DEFAULT_COLOR_PALETTE)
                THEN DEFAULT_COLOR_PALETTE[last]
                ELSE DEFAULT_COLOR_PALETTE[Len(DEFAULT_COLOR_PALETTE)]]))

\* lines 774-782
get_color_mapping_from_environment(env, classes) ==
    IF color_mapping_available_in_environment(env)
    THEN json_loads(env.items["COLORS"])
    ELSE Return(PyDict(DefaultColorMapping(classes)))

\* lines 346-352
RecognizedFormats == {"Stretch to", "Fit (black edges) in", "Fit (white edges) in"}

ResizeFormats == RecognizedFormats \cup {"Fill (with center crop) in"}

\* the declared target size, as numbers or as their decimal strings
DeclaredSizes ==
    {[height |-> PyInt(416), width |-> PyInt(320)],
     [height |-> PyStr(<<4, 1, 6>>), width |-> PyStr(<<3, 2, 0>>)]}

\* values of the "resize" entry of the preprocessing spec
ResizeEntries ==
    {PyNone, EmptyDict}
    \cup {PyDict(size) : size \in DeclaredSizes}
    \cup {PyDict([format |-> PyStr(f)] @@ size) : f \in ResizeFormats, size \in DeclaredSizes}
    \cup {PyDict([format |-> PyStr(f)]) : f \in ResizeFormats}

\* json.loads(environment["PREPROCESSING"])
Preprocs == {EmptyDict} \cup {PyDict([resize |-> r]) : r \in ResizeEntries}

\* CLASS_MAP of the cached environment: its sorted keys give dog, cat
LoadClassMap == (<<0>> :> "dog") @@ (<<1>> :> "cat")

\* class_names.txt of the cache
CachedClassNames == <<"cat", "dog">>

DeclaredColors == [cat |-> "#112233", dog |-> "#445566"]

PreprocessingField ==
    {<<>>, [PREPROCESSING |-> PyStr(PlainText("not json"))]}
    \cup {[PREPROCESSING |-> PyStr(JsonText(p))] : p \in Preprocs}

ClassMapField ==
    {<<>>, [CLASS_MAP |-> PyStr(PlainText("cat,dog"))], [CLASS_MAP |-> PyDict(LoadClassMap)]}

ColorsField ==
    {<<>>, [COLORS |-> PyDict(DeclaredColors)],
     [COLORS |-> PyStr(JsonText(PyDict(DeclaredColors)))]}

\* contents of environment.json: JSON null or an object with any of the keys
LoadEnvironments ==
    {PyNone}
    \cup {PyDict(a @@ b @@ c) :
            a \in PreprocessingField, b \in ClassMapField, c \in ColorsField}

\* get_infer_bucket_file_list of the ONNX variant and of a subclass whose
\* manifest has no class_names.txt
LoadManifests == {<<"environment.json", "class_names.txt">>, <<"environment.json">>}

\* inference.core.cache.model_artefacts: the parsed JSON of a cached file
load_json_from_cache(files, file) == files[file]

\* inference.core.cache.model_artefacts: the lines of a cached file
load_text_file_from_cache(files, file) == files[file]

NotLoaded ==
    [pc |-> "constructed", error |-> None,
     environment |-> Unset, class_names |-> Unset, colors |-> Unset,
     num_classes |-> Unset, preproc |-> Unset, resize_method |-> Unset,
     onnx_session |-> Unset, batch_size |-> Unset, img_size_h |-> Unset,
     img_size_w |-> Unset, batching_enabled |-> Unset, input_name |-> Unset]

\* a raise that is recorded while the method goes on
FailsAndGoesOn(m, error) == [m EXCEPT !.error = error]

\* the method raised: the attributes assigned before the raise stay
Fails(m, error) == [m EXCEPT !.pc = "raised", !.error = error]

\* a load that keeps whatever format the spec declares
ResolveResizeMethodUnchecked(preproc) ==
    IF preproc.type # "dict" THEN Raise("AttributeError")
    ELSE IF "resize" \in DOMAIN preproc.items /\ PyTruthy(preproc.items["resize"])
    THEN LET resize == preproc.items["resize"]
         IN  Return(IF "format" \in DOMAIN resize.items
                    THEN resize.items["format"]
                    ELSE PyStr("Stretch to"))
    ELSE Return(PyStr("Stretch to"))

\* lines 345-355
ResolveResizeMethod(preproc) ==
    IF preproc.type # "dict" THEN Raise("AttributeError")
    ELSE IF "resize" \in DOMAIN preproc.items /\ PyTruthy(preproc.items["resize"])
    THEN LET resize == preproc.items["resize"]
             declared == IF "format" \in DOMAIN resize.items
                         THEN resize.items["format"]
                         ELSE PyStr("Stretch to")
         IN  IF declared.type = "str" /\ declared.value \in RecognizedFormats
             THEN Return(declared)
             ELSE Return(PyStr("Stretch to"))
    ELSE Return(PyStr("Stretch to"))

\* a load that derives the class names from CLASS_MAP whenever it is there
LoadClassNamesPreferringClassMap(infer_bucket_files, files, env) ==
    IF env # Unset /\ env.type = "dict"
       /\ ~class_mapping_not_available_in_environment(env)
    THEN get_class_names_from_environment_file(env)
    ELSE IF "class_names.txt" \in SeqToSet(infer_bucket_files)
    THEN Return(load_text_file_from_cache(files, "class_names.txt"))
    ELSE IF env = Unset THEN Raise("AttributeError")
    ELSE get_class_names_from_environment_file(env)

\* lines 327-335: the class names of the instance
LoadClassNames(infer_bucket_files, files, env) ==
    IF "class_names.txt" \in SeqToSet(infer_bucket_files)
    THEN Return(load_text_file_from_cache(files, "class_names.txt"))
    ELSE IF env = Unset THEN Raise("AttributeError")
    ELSE get_class_names_from_environment_file(env)

\* lines 318-356, on the instance m with the cached files of its directory
load_model_artefacts_from_cache(m, manifest, files) ==
    LET infer_bucket_files == Append(manifest, "weights.onnx")
        m1 == IF "environment.json" \in SeqToSet(infer_bucket_files)
              THEN [m EXCEPT !.environment = load_json_from_cache(files, "environment.json")]
              ELSE m
        names == LoadClassNames(infer_bucket_files, files, m1.environment)
    IN  IF names.kind = "raise" THEN Fails(m1, names.exc)
        ELSE
          LET m2 == [m1 EXCEPT !.class_names = PyList(names.value)]
              mapping == get_color_mapping_from_environment(m2.environment, names.value)
          IN  IF mapping.kind = "raise" THEN Fails(m2, mapping.exc)
              ELSE
                LET m3 == [m2 EXCEPT !.colors = mapping.value,
                                     !.num_classes = PyInt(Len(names.value))]
                IN  IF m3.environment.type = "NoneType" THEN Fails(m3, "TypeError")
                    ELSE IF "PREPROCESSING" \notin DOMAIN m3.environment.items
                    THEN Fails(m3, "ModelArtefactError")
                    ELSE
                      LET parsed == json_loads(m3.environment.items["PREPROCESSING"])
                      IN  IF parsed.kind = "raise" THEN Fails(m3, parsed.exc)
                          ELSE
                            LET m4 == [m3 EXCEPT !.preproc = parsed.value]
                                method == ResolveResizeMethod(parsed.value)
                            IN  IF method.kind = "raise" THEN Fails(m4, method.exc)
                                ELSE [m4 EXCEPT !.resize_method = method.value,
                                                !.pc = "loaded"]

\* line 698 and 699
DEFAULT_IMG_SIZE == 640

\* the input shape the engine reports: batch, channels, height, width, each
\* an int or (symbolic) a str
InputShapes ==
    {<<b, PyInt(3), hw[1], hw[2]>> :
        b \in {PyStr("batch"), PyInt(1), PyInt(8)},
        hw \in {<<PyStr("height"), PyStr("width")>>,
                <<PyInt(416), PyInt(416)>>,
                <<PyStr("height"), PyInt(416)>>}}

\* onnxruntime.InferenceSession either raises or gives a session, and a
\* required execution provider may be missing
EngineOutcomes ==
    {[error |-> None, provider_missing |-> FALSE],
     [error |-> "InvalidProtobuf", provider_missing |-> FALSE],
     [error |-> None, provider_missing |-> TRUE]}

\* lines 693-699: img_size_h is assigned before the width is read
ResolveGeometry(img_size_h, img_size_w, preproc) ==
    IF img_size_h.type = "str" \/ img_size_w.type = "str"
    THEN IF "resize" \in DOMAIN preproc.items
         THEN LET resize == preproc.items["resize"]
              IN  IF resize.type # "dict"
                  THEN [h |-> img_size_h, w |-> img_size_w, error |-> "TypeError"]
                  ELSE IF "height" \notin DOMAIN resize.items
                  THEN [h |-> img_size_h, w |-> img_size_w, error |-> "KeyError"]
                  ELSE IF int(resize.items["height"]).kind = "raise"
                  THEN [h |-> img_size_h, w |-> img_size_w,
                        error |-> int(resize.items["height"]).exc]
                  ELSE LET height == PyInt(int(resize.items["height"]).value)
                       IN  IF "width" \notin DOMAIN resize.items
                           THEN [h |-> height, w |-> img_size_w, error |-> "KeyError"]
                           ELSE IF int(resize.items["width"]).kind = "raise"
                           THEN [h |-> height, w |-> img_size_w,
                                 error |-> int(resize.items["width"]).exc]
                           ELSE [h |-> height,
                                 w |-> PyInt(int(resize.items["width"]).value),
                                 error |-> None]
         ELSE [h |-> PyInt(DEFAULT_IMG_SIZE), w |-> PyInt(DEFAULT_IMG_SIZE), error |-> None]
    ELSE [h |-> img_size_h, w |-> img_size_w, error |-> None]

\* batching that is switched on by any batch dimension other than 1
ResolveBatchingUnlessOne(batch_size) ==
    PyBool(batch_size # PyInt(1))

\* lines 701-706
ResolveBatching(batch_size) == PyBool(batch_size.type = "str")

\* lines 670-706 of initialize_model, after get_model_artifacts returned
CreateSessionAndResolve(m, engine, input_shape) ==
    IF engine.error # None THEN Fails(m, engine.error)
    ELSE
      LET m1 == [m EXCEPT !.onnx_session = PyStr("InferenceSession")]
      IN  IF engine.provider_missing THEN Fails(m1, "OnnxProviderNotAvailable")
          ELSE
            LET m2 == [m1 EXCEPT !.batch_size = input_shape[1],
                                 !.img_size_h = input_shape[3],
                                 !.img_size_w = input_shape[4],
                                 !.input_name = PyStr("images")]
                g == ResolveGeometry(m2.img_size_h, m2.img_size_w, m2.preproc)
                m3 == [m2 EXCEPT !.img_size_h = g.h, !.img_size_w = g.w]
            IN  IF g.error # None THEN Fails(m3, g.error)
                ELSE [m3 EXCEPT !.batching_enabled = ResolveBatching(m3.batch_size),
                                !.pc = "initialized"]

\* the cached files of the model's directory
CachedFiles(env) ==
    ("environment.json" :> env) @@ ("class_names.txt" :> CachedClassNames)

LoadModelArtefactsFromCache ==
    /\ model # Unset
    /\ model.pc = "constructed"
    /\ model' = load_model_artefacts_from_cache(model, given.manifest, given.files)
    /\ UNCHANGED <<env_vars, fetch_vars, bucket_available, load_vars, given, initializers>>

InitializeModel ==
    /\ model # Unset
    /\ model.pc = "loaded"
    /\ model' = CreateSessionAndResolve(model, given.engine, given.input_shape)
    /\ UNCHANGED <<env_vars, fetch_vars, bucket_available, load_vars, given, initializers>>

\* an instance whose manifest is in the cache, before get_model_artifacts
InitLoad ==
    /\ ImportSettings({"None"}, {"None"}, {"False"}, {"key"})
    /\ self = NoInstance
    /\ NothingCalled
    /\ NothingLoaded
    /\ given \in {[manifest |-> f, files |-> CachedFiles(env),
                   engine |-> e, input_shape |-> shape] :
                     f \in LoadManifests, env \in LoadEnvironments,
                     e \in EngineOutcomes, shape \in InputShapes}
    /\ model = NotLoaded
    /\ initializers = NoInitializers

NextLoad == LoadModelArtefactsFromCache \/ InitializeModel

SpecLoad == InitLoad /\ [][NextLoad]_vars

-----------------------------------------------------------------------------
(* The default color mapping, on class lists long enough to cycle the      *)
(* palette.                                                                *)

MaxClassList == 10

ClassPool ==
    <<"c0", "c1", "c2", "c3", "c4", "c5", "c6", "c7", "c8", "c9", "c10", "c11">>

ClassListLengths == {n \in 0..MaxClassList : n <= Len(ClassPool)}

\* class lists of distinct names
DistinctClassLists == {SubSeq(ClassPool, 1, n) : n \in ClassListLengths}

\* class lists in which the name at index i occurs again at index j
RepeatingClassLists ==
    UNION {UNION {{[k \in 1..n |-> IF k = j THEN ClassPool[i] ELSE ClassPool[k]] :
                        i \in 1..(j - 1)} :
                    j \in 1..n} :
            n \in ClassListLengths}

ClassLists == DistinctClassLists \cup RepeatingClassLists

\* environments for the color mapping: null, without COLORS, with COLORS as
\* a JSON object and with COLORS as text
ColorEnvironments ==
    {PyNone, EmptyDict, PyDict([COLORS |-> PyDict(DeclaredColors)]),
     PyDict([COLORS |-> PyStr(JsonText(PyDict(DeclaredColors)))])}

\* lines 774-782 applied to the given environment and class list
GetColorMappingFromEnvironment ==
    /\ model = Unset
    /\ given # Unset
    /\ model' = [pc |-> "called",
                 result |-> get_color_mapping_from_environment(
                                given.environment, given.class_names)]
    /\ UNCHANGED <<env_vars, fetch_vars, bucket_available, load_vars, given, initializers>>

InitColors ==
    /\ ImportSettings({"None"}, {"None"}, {"False"}, {"key"})
    /\ self = NoInstance
    /\ NothingCalled
    /\ NothingLoaded
    /\ given \in {[environment |-> env, class_names |-> classes] :
                    env \in ColorEnvironments, classes \in ClassLists}
    /\ model = Unset
    /\ initializers = NoInitializers

NextColors == GetColorMappingFromEnvironment

SpecColors == InitColors /\ [][NextColors]_vars

-----------------------------------------------------------------------------
(* load_image: one image in the calling thread, a list of images through   *)
(* the thread pool of the instance.                                        *)

MaxImages == 3

\* threads of the pool that run a unit of work at the same time
MaxWorkers == 2

PyTuple(elements) == [type |-> "tuple", elements |-> elements]

\* request images: what they decode to, or that they do not decode
Images ==
    {[type |-> "image", id |-> "a", height |-> 480, width |-> 640, loadable |-> TRUE],
     [type |-> "image", id |-> "b", height |-> 720, width |-> 1280, loadable |-> TRUE],
     [type |-> "image", id |-> "c", height |-> 0, width |-> 0, loadable |-> FALSE]}

ImageLists == UNION {[1..n -> Images] : n \in 0..MaxImages}

\* the four per-call override flags
OverrideFlags ==
    {[disable_preproc_auto_orient |-> a, disable_preproc_contrast |-> b,
      disable_preproc_grayscale |-> b, disable_preproc_static_crop |-> b] :
        a \in BOOLEAN, b \in BOOLEAN}

\* calls of load_image made one after the other on an instance
MaxCalls == 2

\* a preprocessing spec that declares auto-orient
AutoOrientDeclared == PyDict("auto-orient" :> PyBool(TRUE))

\* instances after a successful initialization
InitializedInstances ==
    {[preproc |-> i.preproc, resize_method |-> PyStr(i.resize_method),
      img_size_h |-> PyInt(DEFAULT_IMG_SIZE), img_size_w |-> PyInt(DEFAULT_IMG_SIZE),
      class_names |-> PyList(<<PyStr("cat"), PyStr("dog")>>),
      colors |-> PyDict([c \in {"cat", "dog"} |-> PyStr("#4892EA")])] :
        i \in {[preproc |-> EmptyDict, resize_method |-> "Stretch to"],
               [preproc |-> AutoOrientDeclared, resize_method |-> "Fit (black edges) in"]}}

\* inference.core.env: the process-wide setting
DISABLE_PREPROC_AUTO_ORIENT == given.DISABLE_PREPROC_AUTO_ORIENT

\* inference.core.utils.image_utils.load_image: the decoded image, turned
\* as its orientation tag says unless auto-orient is disabled
load_image(image, disable_preproc_auto_orient) ==
    [image |-> image.id, auto_oriented |-> ~disable_preproc_auto_orient]

\* an argument that passes the flag of the call alone
DisableAutoOrientByFlagAlone(instance, flags) == flags.disable_preproc_auto_orient

\* lines 450-452: the disable_preproc_auto_orient argument of load_image
DisableAutoOrientOnLoad(instance, flags) ==
    \/ flags.disable_preproc_auto_orient
    \/ "auto-orient" \notin DOMAIN instance.preproc.items
    \/ DISABLE_PREPROC_AUTO_ORIENT

\* an instance that keeps the size of the last image it preprocessed
SelfKeepingLastImageSize(instance, image, flags) ==
    [instance EXCEPT !.img_size_h = PyInt(image.height),
                     !.img_size_w = PyInt(image.width)]

\* lines 427-482: preproc_image and what it calls read the attributes of
\* self and assign none of them
SelfAfterPreprocImage(instance, image, flags) == instance

\* inference.core.utils.image_utils.load_image, preprocess.prepare and the
\* cv2 resize: the pixels are a function of the image, the spec of the
\* instance, its resize policy and the flags of the call
Pixels(instance, image, flags) ==
    [np_image |-> load_image(image, DisableAutoOrientOnLoad(instance, flags)),
     image |-> image.id, preproc |-> instance.preproc,
     resize_method |-> instance.resize_method.value, flags |-> flags]

\* np.transpose(resized, (2, 0, 1)) and np.expand_dims(img_in, axis=0)
ChannelFirstBatchOfOne(instance, pixels) ==
    [shape |-> <<1, 3, instance.img_size_h.int, instance.img_size_w.int>>,
     slices |-> <<pixels>>]

\* lines 427-482
preproc_image(instance, image, flags) ==
    IF ~image.loadable THEN Raise("Exception")
    ELSE IF instance.resize_method.value \notin RecognizedFormats
    THEN Raise("UnboundLocalError")
    ELSE Return([img_in |-> ChannelFirstBatchOfOne(instance, Pixels(instance, image, flags)),
                 img_dims |-> <<image.height, image.width>>])

RECURSIVE ConcatSlices(_)
ConcatSlices(imgs) ==
    IF imgs = <<>> THEN <<>>
    ELSE Head(imgs).slices \o ConcatSlices(Tail(imgs))

RECURSIVE SumBatch(_)
SumBatch(imgs) ==
    IF imgs = <<>> THEN 0 ELSE Head(imgs).shape[1] + SumBatch(Tail(imgs))

\* np.concatenate(imgs, axis=0) of arrays that agree on the other axes
np_concatenate(imgs) ==
    [shape |-> <<SumBatch(imgs)>> \o Tail(Head(imgs).shape),
     slices |-> ConcatSlices(imgs)]

\* a single image whose dimensions are returned as they come
load_image_of_one_unwrapped(instance, image, flags) ==
    LET r == preproc_image(instance, image, flags)
    IN  IF r.kind = "raise" THEN r
        ELSE Return([img_in |-> r.value.img_in, img_dims |-> PyTuple(r.value.img_dims)])

\* lines 727-736: the branch of a single image
load_image_of_one(instance, image, flags) ==
    LET r == preproc_image(instance, image, flags)
    IN  IF r.kind = "raise" THEN r
        ELSE Return([img_in |-> r.value.img_in, img_dims |-> PyList(<<r.value.img_dims>>)])

\* lines 725-726: zip(*imgs_with_dims) and np.concatenate of what map yielded
load_image_of_yielded(imgs_with_dims) ==
    IF imgs_with_dims = <<>> THEN Raise("ValueError")
    ELSE Return([img_in |-> np_concatenate([i \in 1..Len(imgs_with_dims) |->
                                                imgs_with_dims[i].img_in]),
                 img_dims |-> PyTuple([i \in 1..Len(imgs_with_dims) |->
                                                imgs_with_dims[i].img_dims])])

NoLoadImageCall ==
    [pc |-> "ready", error |-> None, tasks |-> <<>>, outcomes |-> <<>>,
     completed |-> <<>>, yielded |-> <<>>, result |-> Unset, calls |-> 1]

\* an iterator that yields the results as the workers complete them
ResultToYieldAsCompleted(m) ==
    IF Len(m.completed) > Len(m.yielded) THEN m.completed[Len(m.yielded) + 1] ELSE 0

\* Executor.map: the iterator yields the results in the order of submission
ResultToYield(m) == Len(m.yielded) + 1

\* lines 716-736 up to the first result the caller has to wait for
LoadImage ==
    /\ model # Unset
    /\ model.pc = "ready"
    /\ IF given.image.type = "list"
       THEN IF given.image.elements = <<>>
            THEN model' = [model EXCEPT !.pc = "raised",
                                        !.error = load_image_of_yielded(<<>>).exc]
            ELSE model' = [model EXCEPT
                    !.pc = "mapping",
                    !.tasks = [i \in 1..Len(given.image.elements) |-> "pending"],
                    !.outcomes = [i \in 1..Len(given.image.elements) |-> Unset]]
       ELSE LET r == load_image_of_one(given.self, given.image, given.flags)
            IN  IF r.kind = "raise"
                THEN model' = [model EXCEPT !.pc = "raised", !.error = r.exc]
                ELSE model' = [model EXCEPT !.pc = "returned", !.result = r.value]
    /\ given' = IF given.image.type = "list" THEN given
                ELSE [given EXCEPT !.self = SelfAfterPreprocImage(given.self, given.image,
                                                                  given.flags)]
    /\ UNCHANGED <<env_vars, fetch_vars, bucket_available, load_vars, initializers>>

\* a free thread of the pool takes a unit of work
WorkerStart ==
    /\ model # Unset
    /\ Cardinality({i \in 1..Len(model.tasks) : model.tasks[i] = "running"}) < MaxWorkers
    /\ \E i \in 1..Len(model.tasks) :
          /\ model.tasks[i] = "pending"
          /\ model' = [model EXCEPT !.tasks[i] = "running"]
    /\ UNCHANGED <<env_vars, fetch_vars, bucket_available, load_vars, given, initializers>>

\* a thread of the pool finishes preproc_image on its image
WorkerComplete ==
    /\ model # Unset
    /\ \E i \in 1..Len(model.tasks) :
          /\ model.tasks[i] = "running"
          /\ model' = [model EXCEPT
                !.tasks[i] = "done",
                !.outcomes[i] = preproc_image(given.self, given.image.elements[i],
                                              given.flags),
                !.completed = Append(@, i)]
          /\ given' = [given EXCEPT !.self = SelfAfterPreprocImage(
                            given.self, given.image.elements[i], given.flags)]
    /\ UNCHANGED <<env_vars, fetch_vars, bucket_available, load_vars, initializers>>

\* lines 724-736: the caller takes the next result of map; a result that is
\* an exception ends the call and cancels the work not started, the last
\* result lets the call return
YieldResult ==
    /\ model # Unset
    /\ model.pc = "mapping"
    /\ LET k == ResultToYield(model)
       IN  /\ k \in 1..Len(model.tasks)
           /\ model.tasks[k] = "done"
           /\ IF model.outcomes[k].kind = "raise"
              THEN model' = [model EXCEPT
                        !.pc = "raised",
                        !.error = model.outcomes[k].exc,
                        !.tasks = [i \in 1..Len(model.tasks) |->
                                      IF model.tasks[i] = "pending"
                                      THEN "cancelled" ELSE model.tasks[i]]]
              ELSE LET yielded == Append(model.yielded, model.outcomes[k].value)
                   IN  IF Len(yielded) < Len(model.tasks)
                       THEN model' = [model EXCEPT !.yielded = yielded]
                       ELSE model' = [model EXCEPT
                                !.yielded = yielded,
                                !.pc = "returned",
                                !.result = load_image_of_yielded(yielded).value]
    /\ UNCHANGED <<env_vars, fetch_vars, bucket_available, load_vars, given, initializers>>

LoadImageRequests == Images \cup {PyList(l) : l \in ImageLists}

\* the longest list of a call that follows another call
MaxLaterImages == 2

LaterLoadImageRequests ==
    Images \cup {PyList(l) : l \in UNION {[1..n -> Images] : n \in 0..MaxLaterImages}}

\* the call has ended and the pool is idle: the caller calls load_image
\* again on the same instance, with another request and other flags
NextCall ==
    /\ model # Unset
    /\ model.pc \in {"returned", "raised"}
    /\ model.calls < MaxCalls
    /\ \A i \in 1..Len(model.tasks) : model.tasks[i] # "running"
    /\ \E image \in LaterLoadImageRequests, flags \in OverrideFlags :
          given' = [given EXCEPT !.image = image, !.flags = flags]
    /\ model' = [NoLoadImageCall EXCEPT !.calls = model.calls + 1]
    /\ UNCHANGED <<env_vars, fetch_vars, bucket_available, load_vars, initializers>>

InitLoadImage ==
    /\ ImportSettings({"None"}, {"None"}, {"False"}, {"key"})
    /\ self = NoInstance
    /\ NothingCalled
    /\ NothingLoaded
    /\ given \in {[self |-> instance, image |-> image, flags |-> flags,
                    DISABLE_PREPROC_AUTO_ORIENT |-> setting] :
                    instance \in InitializedInstances,
                    image \in LoadImageRequests,
                    flags \in OverrideFlags,
                    setting \in BOOLEAN}
    /\ model = NoLoadImageCall
    /\ initializers = NoInitializers

NextLoadImage == LoadImage \/ WorkerStart \/ WorkerComplete \/ YieldResult \/ NextCall

SpecLoadImage == InitLoadImage /\ [][NextLoadImage]_vars

-----------------------------------------------------------------------------
(* Two threads construct an instance of the same model at once: each runs  *)
(* get_model_artifacts on the API path, a request or a file write at a     *)
(* time. The server answers both with the same content.                    *)

Initializers == {"first", "second"}

\* metadata of the model on the server: the required keys, any optional key
RaceOrtData == {K \in SUBSET OrtKeys : {"model", "environment"} \subseteq K}

RaceMetadataReplies(ort) ==
    {TransportFailure("ConnectionError"),
     Response(200, TRUE, [keys |-> {"ort"}, ort |-> ort])}

RaceEnvironmentReplies ==
    {TransportFailure("ConnectionError"), Response(200, TRUE, EnvironmentDoc)}

RaceWeightsReplies ==
    {TransportFailure("ConnectionError"), Response(200, FALSE, WeightsBytes)}

\* the cache before the race: empty, or holding the two text files of the
\* model's directory but not its weights
RaceCaches(model_id) ==
    {{},
     save_json_in_cache(
        save_text_lines_in_cache({}, ApiClasses, "class_names.txt", model_id),
        EnvironmentDoc, "environment.json", model_id)}

NotStarted ==
    [pc |-> "check", error |-> None, missed |-> FALSE, ort_data |-> {},
     environment |-> Unset, model_weights_response |-> Unset, loaded |-> Unset]

RaiseIn(t, error) == [t EXCEPT !.pc = "raised", !.error = error]

\* lines 296-303: the required keys of the metadata
ValidateOrtData(t) ==
    IF "model" \notin t.ort_data THEN RaiseIn(t, "ModelArtefactError")
    ELSE IF "environment" \notin t.ort_data THEN RaiseIn(t, "ModelArtefactError")
    ELSE [t EXCEPT !.pc = "get_environment"]

\* lines 249-255 on the API path: the manifest is looked up in the cache
CheckCache(i) ==
    /\ initializers[i].pc = "check"
    /\ ~Truthy(is_model_artefacts_bucket_available)
    /\ initializers' =
          [initializers EXCEPT ![i] =
              IF are_all_files_cached(cache,
                    get_all_required_infer_bucket_file(self.endpoint), self.endpoint)
              THEN [@ EXCEPT !.pc = "load"]
              ELSE [@ EXCEPT !.pc = "get_model_data", !.missed = TRUE]]
    /\ UNCHANGED <<env_vars, fetch_vars, bucket_available, load_vars, given, model>>

\* lines 281-291: the metadata request
RequestModelData(i) ==
    /\ initializers[i].pc = "get_model_data"
    /\ \E reply \in RaceMetadataReplies(given.ort) :
          LET api == get_roboflow_model_data(reply)
              t == initializers[i]
          IN  initializers' =
                [initializers EXCEPT ![i] =
                    IF api.kind = "raise" THEN RaiseIn(t, api.exc)
                    ELSE IF api.kind = "return_none" THEN RaiseIn(t, "AttributeError")
                    ELSE IF "ort" \notin api.value.keys
                    THEN RaiseIn(t, "ModelArtefactError")
                    ELSE IF "classes" \in api.value.ort
                    THEN [t EXCEPT !.ort_data = api.value.ort, !.pc = "save_classes"]
                    ELSE ValidateOrtData([t EXCEPT !.ort_data = api.value.ort])]
    /\ UNCHANGED <<env_vars, fetch_vars, bucket_available, load_vars, given, model>>

\* lines 292-303: class_names.txt is written, then the keys are validated
SaveClassNames(i) ==
    /\ initializers[i].pc = "save_classes"
    /\ cache' = save_text_lines_in_cache(cache, ApiClasses, "class_names.txt", NoModelId)
    /\ initializers' = [initializers EXCEPT ![i] = ValidateOrtData(@)]
    /\ UNCHANGED <<env_vars, self, call, req, api_fetched, bucket_available,
                   load_vars, given, model>>

\* line 304
RequestEnvironment(i) ==
    /\ initializers[i].pc = "get_environment"
    /\ \E reply \in RaceEnvironmentReplies :
          LET fetched == get_from_roboflow_api(reply, TRUE)
              t == initializers[i]
          IN  initializers' =
                [initializers EXCEPT ![i] =
                    IF fetched.kind = "raise" THEN RaiseIn(t, fetched.exc)
                    ELSE [t EXCEPT !.environment = fetched.value, !.pc = "get_weights"]]
    /\ UNCHANGED <<env_vars, fetch_vars, bucket_available, load_vars, given, model>>

\* line 305
RequestWeights(i) ==
    /\ initializers[i].pc = "get_weights"
    /\ \E reply \in RaceWeightsReplies :
          LET fetched == get_from_roboflow_api(reply, FALSE)
              t == initializers[i]
          IN  initializers' =
                [initializers EXCEPT ![i] =
                    IF fetched.kind = "raise" THEN RaiseIn(t, fetched.exc)
                    ELSE [t EXCEPT !.model_weights_response = fetched.value,
                                   !.pc = "save_weights"]]
    /\ UNCHANGED <<env_vars, fetch_vars, bucket_available, load_vars, given, model>>

\* lines 306-310
SaveWeights(i) ==
    /\ initializers[i].pc = "save_weights"
    /\ cache' = save_bytes_in_cache(cache, initializers[i].model_weights_response.content,
                                    weights_file(self.endpoint), self.endpoint)
    /\ initializers' = [initializers EXCEPT ![i].pc = "save_environment"]
    /\ UNCHANGED <<env_vars, self, call, req, api_fetched, bucket_available,
                   load_vars, given, model>>

\* lines 311-316
SaveEnvironment(i) ==
    /\ initializers[i].pc = "save_environment"
    /\ LET t == initializers[i]
           merged == IF "colors" \in t.ort_data
                     THEN SetItem(t.environment, "COLORS", ApiColors)
                     ELSE t.environment
       IN  cache' = save_json_in_cache(cache, merged, "environment.json", NoModelId)
    /\ initializers' = [initializers EXCEPT ![i].pc = "load"]
    /\ UNCHANGED <<env_vars, self, call, req, api_fetched, bucket_available,
                   load_vars, given, model>>

\* lines 246 and 318-331: the configuration is read from the model's
\* directory; the read of a file that is not there fails
LoadFromCache(i) ==
    /\ initializers[i].pc = "load"
    /\ LET environment_file == get_cache_file_path("environment.json", self.endpoint)
           class_names_file == get_cache_file_path("class_names.txt", self.endpoint)
       IN  initializers' =
             [initializers EXCEPT ![i] =
                 IF ~FileExists(cache, environment_file)
                    \/ ~FileExists(cache, class_names_file)
                 THEN RaiseIn(@, "FileNotFoundError")
                 ELSE [@ EXCEPT !.pc = "loaded",
                                !.loaded = [environment |-> FileContent(cache, environment_file),
                                            class_names |-> FileContent(cache, class_names_file)]]]
    /\ UNCHANGED <<env_vars, fetch_vars, bucket_available, load_vars, given, model>>

InitRace ==
    /\ ImportSettings({"None"}, {"None"}, {"False"}, {"key"})
    /\ self = [endpoint |-> ONNX_A, api_key |-> "key"]
    /\ cache \in RaceCaches(ONNX_A)
    /\ call = NoCall
    /\ req = NoRequest
    /\ api_fetched = NotFetched
    /\ bucket_available = "not evaluated"
    /\ NothingLoaded
    /\ given \in {[ort |-> K] : K \in RaceOrtData}
    /\ model = Unset
    /\ initializers = [i \in Initializers |-> NotStarted]

NextRace ==
    \E i \in Initializers :
        \/ CheckCache(i)
        \/ RequestModelData(i)
        \/ SaveClassNames(i)
        \/ RequestEnvironment(i)
        \/ RequestWeights(i)
        \/ SaveWeights(i)
        \/ SaveEnvironment(i)
        \/ LoadFromCache(i)

SpecRace == InitRace /\ [][NextRace]_vars

-----------------------------------------------------------------------------
(* The constructor of an ONNX model, statement by statement:               *)
(* RoboflowInferenceModel.__init__, then initialize_model, then the pool.  *)

MaxIdTokens == 3

\* a model id is a str; its tokens are the separator and pieces without it
IdTokens == {"a", "1", "/"}

ModelIdStrings == UNION {[1..n -> IdTokens] : n \in 0..MaxIdTokens}

\* s.split(sep): the pieces between the separators, empty pieces included
RECURSIVE split(_, _)
split(s, sep) ==
    IF \E i \in 1..Len(s) : s[i] = sep
    THEN LET first == CHOOSE i \in 1..Len(s) :
                         s[i] = sep /\ \A j \in 1..(i - 1) : s[j] # sep
         IN  <<SubSeq(s, 1, first - 1)>> \o split(SubSeq(s, first + 1, Len(s)), sep)
    ELSE <<s>>

\* inference.core.cache.model_artefacts.initialise_cache: the directory of
\* the model id is created
initialise_cache(directories, model_id) == directories \cup {get_cache_dir(model_id)}

\* the instance before __init__ assigned anything
NotConstructed ==
    [NotLoaded EXCEPT !.pc = "new"]
    @@ [api_key |-> None, dataset_id |-> <<>>, version_id |-> <<>>, endpoint |-> <<>>,
        directories |-> {}, steps |-> <<>>, image_loader_threadpool |-> Unset]

\* a statement of the constructor ran
Ran(m, step) == [m EXCEPT !.steps = Append(@, step)]

\* lines 112-126
RoboflowInferenceModel_init(m, model_id, api_key) ==
    LET m1 == [m EXCEPT !.api_key = InstanceApiKey(api_key)]
    IN  IF InitRaisesMissingApiKey(api_key) THEN Fails(m1, "MissingApiKeyError")
        ELSE IF Len(split(model_id, "/")) # 2 THEN Fails(m1, "ValueError")
        ELSE [m1 EXCEPT !.dataset_id = split(model_id, "/")[1],
                        !.version_id = split(model_id, "/")[2],
                        !.endpoint = model_id,
                        !.directories = initialise_cache(@, model_id),
                        !.pc = "fetch"]

\* what cache_model_artefacts can end with on a cache that lacks the files
FetchOutcomes == {None, "RoboflowAPIConnectionError", "ModelArtefactError"}

\* cached environments of a construction: complete, and without PREPROCESSING
ConstructEnvironments ==
    {PyDict([PREPROCESSING |-> PyStr(JsonText(EmptyDict))]),
     PyDict([PREPROCESSING |-> PyStr(JsonText(PyDict([resize |-> EmptyDict])))]),
     PyDict(<<>>)}

\* line 642: super().__init__(model_id, *args, **kwargs)
ConstructBase ==
    /\ model # Unset
    /\ model.pc = "new"
    /\ model' = Ran(RoboflowInferenceModel_init(model, given.model_id, given.api_key),
                    "init")
    /\ UNCHANGED <<env_vars, fetch_vars, bucket_available, load_vars, given, initializers>>

\* lines 245 and 669: cache_model_artefacts returns or raises
FetchArtefacts ==
    /\ model # Unset
    /\ model.pc = "fetch"
    /\ \E outcome \in FetchOutcomes :
          model' = Ran(IF outcome # None THEN Fails(model, outcome)
                       ELSE [model EXCEPT !.pc = "constructed"],
                       "fetch")
    /\ UNCHANGED <<env_vars, fetch_vars, bucket_available, load_vars, given, initializers>>

\* line 246: load_model_artefacts_from_cache
LoadArtefacts ==
    /\ model # Unset
    /\ model.pc = "constructed"
    /\ \E env \in ConstructEnvironments :
          model' = Ran(load_model_artefacts_from_cache(
                          model, get_infer_bucket_file_list(ONNX_A), CachedFiles(env)),
                       "load")
    /\ UNCHANGED <<env_vars, fetch_vars, bucket_available, load_vars, given, initializers>>

\* lines 673-676: onnxruntime.InferenceSession
CreateSession ==
    /\ model # Unset
    /\ model.pc = "loaded"
    /\ \E engine_error \in {e.error : e \in EngineOutcomes} :
          model' = Ran(IF engine_error # None THEN Fails(model, engine_error)
                       ELSE [model EXCEPT !.onnx_session = PyStr("InferenceSession"),
                                          !.pc = "providers"],
                       "session")
    /\ UNCHANGED <<env_vars, fetch_vars, bucket_available, load_vars, given, initializers>>

\* lines 679-685: REQUIRED_ONNX_PROVIDERS against the available providers
CheckProviders ==
    /\ model # Unset
    /\ model.pc = "providers"
    /\ \E provider_missing \in BOOLEAN :
          model' = Ran(IF provider_missing THEN Fails(model, "OnnxProviderNotAvailable")
                       ELSE [model EXCEPT !.pc = "geometry"],
                       "providers")
    /\ UNCHANGED <<env_vars, fetch_vars, bucket_available, load_vars, given, initializers>>

\* lines 687-706
ResolveInputGeometry ==
    /\ model # Unset
    /\ model.pc = "geometry"
    /\ \E input_shape \in InputShapes :
          LET m2 == [model EXCEPT !.batch_size = input_shape[1],
                                  !.img_size_h = input_shape[3],
                                  !.img_size_w = input_shape[4],
                                  !.input_name = PyStr("images")]
              g == ResolveGeometry(m2.img_size_h, m2.img_size_w, m2.preproc)
              m3 == [m2 EXCEPT !.img_size_h = g.h, !.img_size_w = g.w]
          IN  model' = Ran(IF g.error # None THEN Fails(m3, g.error)
                           ELSE [m3 EXCEPT !.batching_enabled = ResolveBatching(m3.batch_size),
                                           !.pc = "pool"],
                           "geometry")
    /\ UNCHANGED <<env_vars, fetch_vars, bucket_available, load_vars, given, initializers>>

\* line 657: self.image_loader_threadpool = ThreadPoolExecutor(max_workers=None)
CreatePool ==
    /\ model # Unset
    /\ model.pc = "pool"
    /\ model' = Ran([model EXCEPT !.image_loader_threadpool = PyStr("ThreadPoolExecutor"),
                                  !.pc = "initialized"],
                    "pool")
    /\ UNCHANGED <<env_vars, fetch_vars, bucket_available, load_vars, given, initializers>>

InitConstruct ==
    /\ ImportSettings({"None", "set"}, {"None", "set"}, EnvBools, {"None", "key"})
    /\ self = NoInstance
    /\ NothingCalled
    /\ NothingLoaded
    /\ given \in {[model_id |-> id, api_key |-> key] :
                    id \in ModelIdStrings, key \in ApiKeyArgs}
    /\ model = NotConstructed
    /\ initializers = NoInitializers

NextConstruct ==
    \/ ConstructBase
    \/ FetchArtefacts
    \/ LoadArtefacts
    \/ CreateSession
    \/ CheckProviders
    \/ ResolveInputGeometry
    \/ CreatePool

SpecConstruct == InitConstruct /\ [][NextConstruct]_vars

-----------------------------------------------------------------------------
(* letterbox_image on image shapes and target sizes. The two ratios are    *)
(* taken as exact quotients, int() as the floor of a positive quotient.    *)

MaxSide == 4

Sides == 1..MaxSide

\* cv2.resize(img, (new_width, new_height)): an empty target size is an error
cv2_resize(new_width, new_height) ==
    IF new_width <= 0 \/ new_height <= 0 THEN Raise("cv2.error")
    ELSE Return([width |-> new_width, height |-> new_height])

\* cv2.copyMakeBorder: the image grows by the four paddings
cv2_copyMakeBorder(img, top, bottom, left, right) ==
    IF top < 0 \/ bottom < 0 \/ left < 0 \/ right < 0 THEN Raise("cv2.error")
    ELSE Return([width |-> img.width + left + right,
                 height |-> img.height + top + bottom,
                 content |-> img,
                 top |-> top, bottom |-> bottom, left |-> left, right |-> right])

\* lines 366-412; img is (height, width), desired_size is (width, height)
letterbox_image(img, desired_size) ==
    LET img_height == img[1]
        img_width == img[2]
        \* img_ratio >= desired_ratio
        by_width == img_width * desired_size[2] >= desired_size[1] * img_height
        new_width == IF by_width THEN desired_size[1]
                     ELSE (desired_size[2] * img_width) \div img_height
        new_height == IF by_width THEN (desired_size[1] * img_height) \div img_width
                      ELSE desired_size[2]
        resized_img == cv2_resize(new_width, new_height)
        top_padding == (desired_size[2] - new_height) \div 2
        bottom_padding == desired_size[2] - new_height - top_padding
        left_padding == (desired_size[1] - new_width) \div 2
        right_padding == desired_size[1] - new_width - left_padding
    IN  IF resized_img.kind = "raise" THEN resized_img
        ELSE cv2_copyMakeBorder(resized_img.value, top_padding, bottom_padding,
                                left_padding, right_padding)

CallLetterboxImage ==
    /\ model = Unset
    /\ model' = [pc |-> "called",
                 result |-> letterbox_image(given.img, given.desired_size)]
    /\ UNCHANGED <<env_vars, fetch_vars, bucket_available, load_vars, given, initializers>>

InitLetterbox ==
    /\ ImportSettings({"None"}, {"None"}, {"False"}, {"key"})
    /\ self = NoInstance
    /\ NothingCalled
    /\ NothingLoaded
    /\ given \in {[img |-> <<h, w>>, desired_size |-> <<dw, dh>>] :
                    h \in Sides, w \in Sides, dw \in Sides, dh \in Sides}
    /\ model = Unset
    /\ initializers = NoInitializers

NextLetterbox == CallLetterboxImage

SpecLetterbox == InitLetterbox /\ [][NextLetterbox]_vars

-----------------------------------------------------------------------------
(* The claims. The vocabulary of the claims is stated on the settings and  *)
(* on the files, not through the operators of the fetch step.              *)

-----------------------------------------------------------------------------
(* get_roboflow_model_type (roboflow_api.py, lines 120-159).               *)

\* lines 27-31
MODEL_TYPE_DEFAULTS ==
    ("object-detection" :> "yolov5v2s") @@ ("instance-segmentation" :> "yolact")
        @@ ("classification" :> "vit")

\* project task types: the three with a default model type and three without
ProjectTaskTypes ==
    DOMAIN MODEL_TYPE_DEFAULTS
        \cup {"keypoint-detection", "semantic-segmentation", "multi-label-classification"}

DeclaredModelTypes == {"yolov8n", "yolov5v2s", "yolact", "vit"}

\* version info documents: without "version", with a version that declares
\* no model type, with a version that declares one
VersionBodies ==
    {[keys |-> {}, version |-> <<>>], [keys |-> {"version"}, version |-> <<>>]}
    \cup {[keys |-> {"version"}, version |-> ("modelType" :> t)] : t \in DeclaredModelTypes}

VersionInfoReplies ==
    {TransportFailure("ConnectionError"), TransportFailure("ReadTimeout"),
     Response(401, TRUE, ErrorDoc), Response(200, FALSE, HtmlBody)}
    \cup {Response(200, TRUE, b) : b \in VersionBodies}

\* lines 137-159, the body of the function: the second argument of
\* model_type.get is evaluated before get is called
get_roboflow_model_type_body(reply, project_task_type) ==
    IF reply.transport # "ok" THEN Raise(reply.transport)
    ELSE IF IsErrorStatus(reply.status) THEN Raise("HTTPError")
    ELSE IF ~reply.is_json THEN Raise("InvalidJSONError")
    ELSE IF "version" \notin reply.body.keys THEN Raise("KeyError")
    ELSE LET model_type == reply.body.version
         IN  IF /\ "modelType" \notin DOMAIN model_type
                /\ project_task_type \notin DOMAIN MODEL_TYPE_DEFAULTS
             THEN Raise("MissingDefaultModelError")
             ELSE IF project_task_type \notin DOMAIN MODEL_TYPE_DEFAULTS
             THEN Raise("KeyError")
             ELSE IF "modelType" \in DOMAIN model_type
             THEN Return(model_type["modelType"])
             ELSE Return(MODEL_TYPE_DEFAULTS[project_task_type])

\* lines 120-136: the decorated function
get_roboflow_model_type(reply, project_task_type) ==
    wrap_roboflow_api_errors("RoboflowAPIConnectionError", "DatasetLoadError",
                             get_roboflow_model_type_body(reply, project_task_type))

NotCalled == [pc |-> "ready", outcome |-> ReturnNone]

CallGetRoboflowModelType ==
    /\ model # Unset
    /\ model.pc = "ready"
    /\ model' = [pc |-> "called",
                 outcome |-> get_roboflow_model_type(given.reply, given.project_task_type)]
    /\ UNCHANGED <<env_vars, fetch_vars, bucket_available, load_vars, given, initializers>>

InitModelType ==
    /\ ImportSettings({"None"}, {"None"}, {"False"}, {"key"})
    /\ self = NoInstance
    /\ NothingCalled
    /\ NothingLoaded
    /\ given \in {[reply |-> reply, project_task_type |-> t] :
                    reply \in VersionInfoReplies, t \in ProjectTaskTypes}
    /\ model = NotCalled
    /\ initializers = NoInitializers

NextModelType == CallGetRoboflowModelType

SpecModelType == InitModelType /\ [][NextModelType]_vars

CredentialsConfigured ==
    /\ AWS_ACCESS_KEY_ID \notin {"None", ""}
    /\ AWS_SECRET_ACCESS_KEY \notin {"None", ""}

DeploymentFlagSet == LAMBDA_FLAG = "True"

ClientConstructed == S3_CLIENT # "None"

BulkSourceAvailable == CredentialsConfigured /\ DeploymentFlagSet /\ ClientConstructed

FetchCalled == call.op \in FetchOps

CacheMiss == FetchCalled /\ ~call.manifest_present

NoApiRequest == call.n_metadata = 0 /\ call.n_get = 0

BulkFailed == req.op = "bulk" /\ req.raised # None

HttpErrorStatus(request) ==
    /\ request.op \in {"metadata", "GET"}
    /\ request.reply.transport = "ok"
    /\ IsErrorStatus(request.reply.status)

\* the response of a metadata request is a JSON document without the
\* weights location or (ORT endpoint) without the environment location
LacksRequiredKey(request) ==
    /\ request.op = "metadata"
    /\ request.result = "return"
    /\ IF request.arg.endpoint_type = "ort"
       THEN \/ "ort" \notin request.reply.body.keys
            \/ "model" \notin request.reply.body.ort
            \/ "environment" \notin request.reply.body.ort
       ELSE "weights" \notin request.reply.body.keys

\* C1: a fetch step called when the whole manifest is under the model's
\* directory returns at once: no bulk download, no metadata request, no GET,
\* no error, and the cache is what it was.
C1_CacheHitIssuesNothing ==
    (FetchCalled /\ call.manifest_present) =>
        /\ call.pc = "done"
        /\ call.error = None
        /\ call.n_bulk = 0
        /\ NoApiRequest
        /\ req = NoRequest
        /\ ~call.cache_changed

C1_Witness ==
    /\ call.op = "cache_model_artefacts"
    /\ call.manifest_present
    /\ call.pc = "done"

\* C2: once a fetch on the per-file API path has completed successfully,
\* every manifest file is under the model's directory, and a later call for
\* the identity issues no metadata request and no GET.
C2_AtMostOneFetch ==
    /\ api_fetched.done => ManifestPresent(cache, self.endpoint)
    /\ (FetchCalled /\ call.fetched_before) => NoApiRequest

\* C3: on a cache miss the bulk source alone decides the strategy: with it
\* no metadata request and no GET, without it no bulk download and the
\* metadata request of the API path.
C3_StrategyByBulkAvailability ==
    CacheMiss =>
        /\ BulkSourceAvailable => NoApiRequest
        /\ ~BulkSourceAvailable => (call.n_bulk = 0 /\ call.n_metadata >= 1)

C3_Witness ==
    /\ CacheMiss
    /\ BulkSourceAvailable
    /\ call.n_bulk = 1
    /\ call.op = "download_weights" \/ call.op = "cache_model_artefacts"

\* C4: is_model_artefacts_bucket_available is true exactly when credentials,
\* deployment flag and constructed client hold together, and evaluating it
\* touches neither the cache nor the network.
C4_BucketAvailableIffAllThree ==
    (bucket_available # "not evaluated") =>
        /\ Truthy(bucket_available) <=> BulkSourceAvailable
        /\ cache = {}
        /\ req = NoRequest

C4_Witness ==
    /\ bucket_available # "not evaluated"
    /\ Truthy(bucket_available)

\* C5: with bulk mode selected, a failed bulk download ends the call with an
\* error, and the call issues no metadata request and no GET.
C5_BulkFailureIsFatal ==
    (CacheMiss /\ BulkSourceAvailable) =>
        /\ NoApiRequest
        /\ BulkFailed => (call.pc = "raised" /\ call.error # None)

C5_Witness == CacheMiss /\ BulkSourceAvailable /\ BulkFailed

\* C6 as stated: a failure of the bulk download surfaces as ArtifactDownloadError.
C6_SurfacedAsArtifactDownloadError ==
    (CacheMiss /\ BulkSourceAvailable /\ call.pc = "raised") =>
        call.error = "ArtifactDownloadError"

\* C6 amended: a failure of the bulk download surfaces as ModelArtefactError.
C6_SurfacedAsModelArtefactError ==
    (CacheMiss /\ BulkSourceAvailable /\ call.pc = "raised") =>
        call.error = "ModelArtefactError"

C6_Witness == CacheMiss /\ BulkSourceAvailable /\ BulkFailed /\ call.pc = "raised"

\* C7: a metadata response without a required key makes the fetch fail with
\* ModelArtefactError before any GET is issued for it.
C7_MissingKeyIsModelArtefactError ==
    LacksRequiredKey(req) => (call.pc = "raised" /\ call.error = "ModelArtefactError")

\* C8: a GET answered with an HTTP error status fails with
\* RoboflowAPIRequestError, and no cached file holds an error body.
C8_ErrorStatusFailsGet ==
    /\ (req.op = "GET" /\ HttpErrorStatus(req)) =>
           (call.pc = "raised" /\ call.error = "RoboflowAPIRequestError")
    /\ \A e \in cache :
           e.content \notin {[kind |-> "bytes", body |-> AccessDeniedBody],
                             [kind |-> "json", value |-> ErrorDoc]}

\* C9: a wrapped call returns the function's result or raises: connection
\* failure, HTTP-status failure and non-JSON body raise their error kinds,
\* any other exception propagates unchanged, the raise ends the fetch with
\* that error, and the wrapper never returns without a result.
C9_WrapperReturnsOrRaises ==
    (req.op \in {"metadata", "GET"}) =>
        /\ req.result \in {"return", "raise"}
        /\ (req.raised = None) <=> (req.result = "return")
        /\ req.raised = "ConnectionError" => req.exc = "RoboflowAPIConnectionError"
        /\ req.raised = "HTTPError" =>
              req.exc = IF req.op = "metadata" THEN "ModelDataFetchingError"
                                              ELSE "RoboflowAPIRequestError"
        /\ req.raised = "InvalidJSONError" => req.exc = "MalformedRoboflowAPIResponseError"
        /\ req.raised \notin {None, "ConnectionError", "HTTPError", "InvalidJSONError"} =>
              req.exc = req.raised
        /\ req.result = "raise" => (call.pc = "raised" /\ call.error = req.exc)

C9_Witness ==
    /\ req.op = "metadata"
    /\ req.raised = "HTTPError"
    /\ call.error = "ModelDataFetchingError"

\* the keys of CLASS_MAP and the class list derived from them
ClassMapOf(env) == env.items["CLASS_MAP"].items

HasClassMap(env) ==
    /\ env.type = "dict"
    /\ "CLASS_MAP" \in DOMAIN env.items
    /\ env.items["CLASS_MAP"].type = "dict"

\* C10: the class at index i is the value of the i-th key in the
\* lexicographic string order of the keys (so the class of "10" comes before
\* the class of "2"), one entry per key.
C10_ClassOrderIsLexicographic ==
    (class_names.kind = "return" /\ HasClassMap(environment)) =>
        LET class_map == ClassMapOf(environment)
            keys == DOMAIN class_map
            IndexOf(k) == 1 + Cardinality({j \in keys : StrLess(j, k)})
        IN  /\ Len(class_names.value) = Cardinality(keys)
            /\ \A k \in keys : class_names.value[IndexOf(k)] = class_map[k]

C10_Witness ==
    /\ class_names.kind = "return"
    /\ HasClassMap(environment)
    /\ {<<2>>, <<1, 0>>} \subseteq DOMAIN ClassMapOf(environment)
    /\ ClassMapOf(environment)[<<1, 0>>] = "dog"
    /\ ClassMapOf(environment)[<<2>>] = "cat"
    /\ class_names.value = <<"dog", "cat">>

\* what the instance was given, in the words of the claims
GivenEnvironment == given.files["environment.json"]

ManifestHasClassNamesFile == "class_names.txt" \in SeqToSet(given.manifest)

LoadCalled == model # Unset /\ model.pc # "constructed"

\* COLORS holds a color map
DeclaresColors(env) ==
    /\ env.type = "dict"
    /\ "COLORS" \in DOMAIN env.items
    /\ env.items["COLORS"].type = "dict"

RequestsResizing(preproc) ==
    /\ "resize" \in DOMAIN preproc.items
    /\ PyTruthy(preproc.items["resize"])

DeclaresRecognizedFormat(preproc) ==
    /\ RequestsResizing(preproc)
    /\ "format" \in DOMAIN preproc.items["resize"].items
    /\ preproc.items["resize"].items["format"].value \in RecognizedFormats

IsSymbolic(dim) == dim.type = "str"

C12_DeclaredColorsAreUsed ==
    (LoadCalled /\ model.class_names # Unset) =>
        /\ DeclaresColors(GivenEnvironment) => model.colors = PyDict(DeclaredColors)
        /\ ~DeclaresColors(GivenEnvironment) =>
              model.colors = PyDict(DefaultColorMapping(model.class_names.elements))

\* C14: an environment without PREPROCESSING and with a class source makes
\* the initialization fail with ModelArtefactError, and no session and no
\* geometry exist for the instance.
C14_MissingPreprocessingIsModelArtefactError ==
    (/\ LoadCalled
     /\ GivenEnvironment.type = "dict"
     /\ "PREPROCESSING" \notin DOMAIN GivenEnvironment.items
     /\ (ManifestHasClassNamesFile \/ HasClassMap(GivenEnvironment))) =>
        /\ model.pc = "raised"
        /\ model.error = "ModelArtefactError"
        /\ model.onnx_session = Unset
        /\ model.img_size_h = Unset
        /\ model.img_size_w = Unset

\* C15: after a successful load the resize policy is one of the three
\* recognized ones: the declared format when resizing is requested with a
\* recognized format, the stretch policy in every other case.
C15_ResizePolicyIsRecognized ==
    (LoadCalled /\ model.resize_method # Unset) =>
        /\ model.resize_method.value \in RecognizedFormats
        /\ IF DeclaresRecognizedFormat(model.preproc)
           THEN model.resize_method = model.preproc.items["resize"].items["format"]
           ELSE model.resize_method = PyStr("Stretch to")

C15_Witness ==
    /\ LoadCalled
    /\ model.pc = "loaded"
    /\ RequestsResizing(model.preproc)
    /\ "format" \in DOMAIN model.preproc.items["resize"].items
    /\ model.preproc.items["resize"].items["format"] = PyStr("Fill (with center crop) in")
    /\ model.resize_method = PyStr("Stretch to")

\* C16: once the engine's shape has been read, height and width are
\* integers: the declared resize height and width when a dimension is
\* symbolic and resizing is requested, 640 each when a dimension is symbolic
\* and it is not, the reported integers otherwise.
C16_GeometryIsConcrete ==
    (LoadCalled /\ model.batch_size # Unset) =>
        LET reported_h == given.input_shape[3]
            reported_w == given.input_shape[4]
            resize == model.preproc.items["resize"]
        IN  /\ model.pc = "initialized"
            /\ model.img_size_h.type = "int"
            /\ model.img_size_w.type = "int"
            /\ IF IsSymbolic(reported_h) \/ IsSymbolic(reported_w)
               THEN IF RequestsResizing(model.preproc)
                    THEN /\ {"height", "width"} \subseteq DOMAIN resize.items
                         /\ model.img_size_h = PyInt(int(resize.items["height"]).value)
                         /\ model.img_size_w = PyInt(int(resize.items["width"]).value)
                    ELSE /\ model.img_size_h = PyInt(640)
                         /\ model.img_size_w = PyInt(640)
               ELSE /\ model.img_size_h = reported_h
                    /\ model.img_size_w = reported_w

\* C17: dynamic batching is on exactly when the reported batch dimension is
\* symbolic; an integer batch dimension n leaves it off with batch size n.
C17_BatchingIffSymbolicBatch ==
    (LoadCalled /\ model.pc = "initialized") =>
        /\ model.batching_enabled.bool <=> IsSymbolic(given.input_shape[1])
        /\ ~IsSymbolic(given.input_shape[1]) => model.batch_size = given.input_shape[1]

C17_Witness ==
    /\ LoadCalled
    /\ model.pc = "initialized"
    /\ given.input_shape[1] = PyInt(8)
    /\ model.batch_size = PyInt(8)
    /\ model.batching_enabled = PyBool(FALSE)

ColorMappingCalled == model # Unset /\ model.pc = "called"

NoColorMap == ~DeclaresColors(given.environment)

HasDistinctNames(classes) == Cardinality(SeqToSet(classes)) = Len(classes)

\* the 0-based index of the last occurrence of a name in a class list
LastIndexOf(classes, name) ==
    CHOOSE i \in 0..(Len(classes) - 1) :
        /\ classes[i + 1] = name
        /\ \A j \in (i + 1)..(Len(classes) - 1) : classes[j + 1] # name

PaletteEntry(i) == DEFAULT_COLOR_PALETTE[(i % 9) + 1]

\* C13 as stated: without a color map the class at index i receives palette
\* entry i mod 9 of the 9-entry default palette, for every class list, so the
\* classes at indices i and i+9 receive the same color.
C13_EveryIndexGetsItsPaletteEntry ==
    (ColorMappingCalled /\ NoColorMap) =>
        /\ Len(DEFAULT_COLOR_PALETTE) = 9
        /\ model.result.kind = "return"
        /\ \A i \in 0..(Len(given.class_names) - 1) :
              model.result.value.items[given.class_names[i + 1]] = PaletteEntry(i)
        /\ \A i \in 0..(Len(given.class_names) - 10) :
              model.result.value.items[given.class_names[i + 1]]
                = model.result.value.items[given.class_names[i + 10]]

\* C13, amended: without a color map every class name receives palette entry
\* i mod 9 of the 9-entry default palette, where i is the last index at which
\* the name occurs; in a class list of distinct names that is the entry of
\* the class's own index, and the classes at indices i and i+9 receive the
\* same color.
C13_LastIndexGetsItsPaletteEntry ==
    (ColorMappingCalled /\ NoColorMap) =>
        /\ Len(DEFAULT_COLOR_PALETTE) = 9
        /\ model.result.kind = "return"
        /\ DOMAIN model.result.value.items = SeqToSet(given.class_names)
        /\ \A name \in SeqToSet(given.class_names) :
              model.result.value.items[name]
                = PaletteEntry(LastIndexOf(given.class_names, name))
        /\ HasDistinctNames(given.class_names) =>
              /\ \A i \in 0..(Len(given.class_names) - 1) :
                    model.result.value.items[given.class_names[i + 1]] = PaletteEntry(i)
              /\ \A i \in 0..(Len(given.class_names) - 10) :
                    model.result.value.items[given.class_names[i + 1]]
                      = model.result.value.items[given.class_names[i + 10]]

\* ten distinct classes without a color map: index 0 and index 9 share the
\* first palette entry
C13_Witness ==
    /\ ColorMappingCalled
    /\ NoColorMap
    /\ Len(given.class_names) >= 10
    /\ HasDistinctNames(given.class_names)
    /\ model.result.kind = "return"
    /\ model.result.value.items[given.class_names[1]] = DEFAULT_COLOR_PALETTE[1]
    /\ model.result.value.items[given.class_names[10]] = DEFAULT_COLOR_PALETTE[1]

LoadImageReturned == model # Unset /\ model.pc = "returned"

GivenList == given.image.type = "list"

\* C18: for a list of images preprocessed through the pool, the i-th slice of
\* the output tensor along the batch axis and the i-th entry of the returned
\* dimensions are those of the i-th input image, whatever the order in which
\* the workers started and completed.
C18_OutputOrderIsInputOrder ==
    (LoadImageReturned /\ GivenList) =>
        /\ Len(model.result.img_in.slices) = Len(given.image.elements)
        /\ Len(model.result.img_dims.elements) = Len(given.image.elements)
        /\ \A i \in 1..Len(given.image.elements) :
              LET image == given.image.elements[i]
              IN  /\ model.result.img_in.slices[i] = Pixels(given.self, image, given.flags)
                  /\ model.result.img_dims.elements[i] = <<image.height, image.width>>

\* two different images of which the second was completed first
C18_Witness ==
    /\ LoadImageReturned
    /\ GivenList
    /\ Len(given.image.elements) >= 2
    /\ given.image.elements[1] # given.image.elements[2]
    /\ model.completed[1] = 2
    /\ model.result.img_in.slices[1].image = given.image.elements[1].id

RECURSIVE ConcatOfSingles(_, _, _)
ConcatOfSingles(instance, images, flags) ==
    IF images = <<>> THEN [slices |-> <<>>, batch |-> 0, dims |-> <<>>]
    ELSE LET one == load_image_of_one(instance, Head(images), flags).value
             rest == ConcatOfSingles(instance, Tail(images), flags)
         IN  [slices |-> one.img_in.slices \o rest.slices,
              batch |-> one.img_in.shape[1] + rest.batch,
              dims |-> one.img_dims.elements \o rest.dims]

\* C19: load_image on a list of N >= 1 images returns what concatenating,
\* along the batch axis, the results of load_image on each image alone with
\* the same flags gives: batch axis N and N dimension entries; a single
\* image returns batch axis 1 and one dimension entry.
C19_ListIsConcatenationOfSingles ==
    LoadImageReturned =>
        IF GivenList
        THEN LET N == Len(given.image.elements)
                 singles == ConcatOfSingles(given.self, given.image.elements, given.flags)
             IN  /\ N >= 1
                 /\ model.result.img_in.slices = singles.slices
                 /\ model.result.img_in.shape[1] = singles.batch
                 /\ model.result.img_in.shape[1] = N
                 /\ Tail(model.result.img_in.shape)
                      = Tail(load_image_of_one(given.self, given.image.elements[1],
                                               given.flags).value.img_in.shape)
                 /\ model.result.img_dims.elements = singles.dims
                 /\ Len(model.result.img_dims.elements) = N
        ELSE /\ model.result.img_in.shape[1] = 1
             /\ Len(model.result.img_in.slices) = 1
             /\ Len(model.result.img_dims.elements) = 1
             /\ model.result.img_dims.elements[1] = <<given.image.height, given.image.width>>

\* a list of three images returned with batch axis 3
C19_Witness ==
    /\ LoadImageReturned
    /\ GivenList
    /\ Len(given.image.elements) = MaxImages
    /\ model.result.img_in.shape[1] = MaxImages
    /\ Len(model.result.img_dims.elements) = MaxImages

FetchReturned(i) == initializers[i].pc \in {"load", "loaded"}
                    \/ (initializers[i].pc = "raised"
                        /\ initializers[i].error = "FileNotFoundError")

BothMissedAndFetched ==
    /\ initializers # NoInitializers
    /\ \A i \in Initializers : initializers[i].missed /\ FetchReturned(i)

\* what one complete fetch stores under each file of the manifest
CompleteFetch(file) ==
    CASE file = "weights.onnx" -> [kind |-> "bytes", body |-> WeightsBytes]
      [] file = "class_names.txt" -> [kind |-> "lines", lines |-> ApiClasses]
      [] file = "environment.json" ->
            [kind |-> "json",
             value |-> IF "colors" \in given.ort
                       THEN SetItem(EnvironmentDoc, "COLORS", ApiColors)
                       ELSE EnvironmentDoc]

\* C20: when two initializers of the same model both observe a cache miss
\* and both fetch on the API path, then in every interleaving of their
\* checks, downloads and file writes the cache ends holding every manifest
\* file with the content of one complete fetch, none missing, and both
\* initializers load the same configuration.
C20_RaceLeavesOneCompleteFetch ==
    BothMissedAndFetched =>
        /\ ManifestPresent(cache, self.endpoint)
        /\ \A f \in ManifestOf(self.endpoint) :
              FileContent(cache, get_cache_file_path(f, self.endpoint)) = CompleteFetch(f)
        /\ \A i \in Initializers : initializers[i].pc # "raised"
        /\ (\A i \in Initializers : initializers[i].pc = "loaded") =>
              \A i, j \in Initializers : initializers[i].loaded = initializers[j].loaded

BaseInitRan == model # Unset /\ model.steps # <<>>

\* exactly one separator, with something before it and something after it
WellFormedId(id) ==
    /\ Cardinality({i \in 1..Len(id) : id[i] = "/"}) = 1
    /\ id[1] # "/"
    /\ id[Len(id)] # "/"

\* C21: construction from an identity string succeeds only if the string
\* splits on '/' into exactly two non-empty segments; for every other string
\* it fails and no cache directory is initialised.
C21_OnlyWellFormedIdsConstruct ==
    (BaseInitRan /\ ~WellFormedId(given.model_id)) =>
        /\ model.error # None
        /\ model.directories = {}

NoApiKeyAnywhere == given.api_key \in {"None", ""} /\ API_KEY \in {"None", ""}

FullCredentialSet == CredentialsConfigured /\ DeploymentFlagSet

\* C22: construction without any API key and without the full set of
\* object-store credentials plus deployment flag fails with
\* MissingApiKeyError before the cache is initialised and before any
\* request; with a key or with the full set that error is not raised.
C22_MissingApiKeyIffNoKeyAndNoCredentials ==
    BaseInitRan =>
        /\ (model.error = "MissingApiKeyError")
              <=> (NoApiKeyAnywhere /\ ~FullCredentialSet)
        /\ model.error = "MissingApiKeyError" =>
              /\ model.directories = {}
              /\ model.steps = <<"init">>
              /\ req = NoRequest
              /\ cache = {}

C22_Witness ==
    /\ BaseInitRan
    /\ WellFormedId(given.model_id)
    /\ NoApiKeyAnywhere
    /\ CredentialsConfigured
    /\ ~DeploymentFlagSet
    /\ model.error = "MissingApiKeyError"

ConstructionOrder ==
    <<"init", "fetch", "load", "session", "providers", "geometry", "pool">>

\* C30: the constructor of an ONNX model runs fetch, load, session, provider
\* check, geometry resolution and pool creation in this order, each at most
\* once; after a step failed nothing else runs.
C30_StepsInOrderAndAbortOnFailure ==
    [][/\ IsPrefix(model'.steps, ConstructionOrder)
       /\ model.error # None => model' = model]_vars

\* a construction that went through, geometry resolved once
C30_Witness ==
    /\ model # Unset
    /\ model.pc = "initialized"
    /\ model.steps = ConstructionOrder
    /\ model.image_loader_threadpool # Unset
    /\ Cardinality({i \in 1..Len(model.steps) : model.steps[i] = "geometry"}) = 1

LetterboxCalled == model # Unset /\ model.pc = "called"

\* C23: for every image of positive width and height and every positive
\* target size, letterbox_image returns an image of exactly the target size:
\* the scaled content is between 1 pixel and the target on each axis, the
\* four paddings are non-negative, content plus paddings is the target, and
\* opposite paddings differ by at most 1.
C23_LetterboxFillsTheTarget ==
    LetterboxCalled =>
        /\ model.result.kind = "return"
        /\ LET out == model.result.value
           IN  /\ out.width = given.desired_size[1]
               /\ out.height = given.desired_size[2]
               /\ out.content.width \in 1..given.desired_size[1]
               /\ out.content.height \in 1..given.desired_size[2]
               /\ out.top >= 0 /\ out.bottom >= 0 /\ out.left >= 0 /\ out.right >= 0
               /\ out.content.width + out.left + out.right = given.desired_size[1]
               /\ out.content.height + out.top + out.bottom = given.desired_size[2]
               /\ out.bottom - out.top \in {-1, 0, 1}
               /\ out.right - out.left \in {-1, 0, 1}

ApiFetchFailed ==
    /\ call.op = "cache_model_artefacts"
    /\ call.n_metadata >= 1
    /\ call.pc = "raised"

\* C24: whenever the per-file API fetch of the ONNX variant ends with an
\* error, at whatever step, the cached files are the same as before the
\* call: a failed fetch leaves no file behind.
C24_FailedFetchLeavesCacheUnchanged ==
    ApiFetchFailed => ~call.cache_changed

CoreApiFetch == call.op = "download_weights" /\ call.n_metadata >= 1

MetadataReissued == call.n_metadata >= 2

\* C25: in the per-file fetch of a core model a download that took longer
\* than 120 time units is persisted like any other and is not fatal: the
\* metadata request is reissued once for it, and whatever the refreshed
\* response contains the fetch goes on, ending with an error only when a
\* request fails.
C25_SlowDownloadIsNeverFatal ==
    CoreApiFetch =>
        /\ call.pc = "refresh" =>
              /\ req.op = "GET"
              /\ FileExists(cache, get_cache_file_path(BlobFilename(req.arg), self.endpoint))
        /\ call.n_metadata <= 1 + call.n_get
        /\ (MetadataReissued /\ call.pc = "raised") => req.result = "raise"

InModelDirectory(path, model_id) == IsPrefix(get_cache_dir(model_id) \o <<"/">>, path)

\* C26: every file a fetch for a model writes is at
\* <cacheRoot>/<datasetId>/<versionId>/<filename>, the location the existence
\* check and the later load use; nothing is written outside the model's
\* directory.
C26_EveryWriteInModelDirectory ==
    \A e \in cache :
        /\ InModelDirectory(e.path, self.endpoint)
        /\ Len(e.path) = Len(get_cache_dir(self.endpoint)) + 2

BulkKeysOf(model_id) == {model_id \o <<"/", f>> : f \in ManifestOf(model_id)}

\* C27: when the bulk source is available on a cache miss, the fetch step of
\* either variant issues exactly one bulk download, whose keys are exactly
\* modelId/f for the files f of the variant's manifest and whose target is
\* the model's cache directory.
C27_OneBulkDownloadOfTheManifest ==
    (CacheMiss /\ BulkSourceAvailable) =>
        /\ call.n_bulk = 1
        /\ req.op = "bulk"
        /\ SeqToSet(req.arg.keys) = BulkKeysOf(self.endpoint)
        /\ req.arg.target_dir = ModelDirectory(self.endpoint)

\* the image a finished single-image call got from load_image
LoadedForPreproc == model.result.img_in.slices[1].np_image

\* C28: preproc_image has the image auto-oriented when loading it only if
\* the preprocessing spec declares auto-orient, the call did not disable it
\* and the process-wide disable setting is off.
C28_AutoOrientOnlyIfDeclaredAndNotDisabled ==
    LoadImageReturned =>
        \A i \in 1..Len(model.result.img_in.slices) :
            model.result.img_in.slices[i].np_image.auto_oriented =>
                /\ "auto-orient" \in DOMAIN given.self.preproc.items
                /\ ~given.flags.disable_preproc_auto_orient
                /\ ~given.DISABLE_PREPROC_AUTO_ORIENT

C28_Witness ==
    /\ LoadImageReturned
    /\ ~GivenList
    /\ LoadedForPreproc.auto_oriented
    /\ given.self.preproc = AutoOrientDeclared

\* C29: no preprocessing call, on one image or on a list and with any
\* flags, and so no sequence of them, changes the geometry, the resize
\* policy, the preprocessing spec, the class names or the color map of the
\* instance.
C29_PreprocessingLeavesInstanceUnchanged ==
    [][/\ given'.self.img_size_h = given.self.img_size_h
       /\ given'.self.img_size_w = given.self.img_size_w
       /\ given'.self.resize_method = given.self.resize_method
       /\ given'.self.preproc = given.self.preproc
       /\ given'.self.class_names = given.self.class_names
       /\ given'.self.colors = given.self.colors]_vars

C29_Witness ==
    /\ LoadImageReturned
    /\ model.calls = MaxCalls
    /\ GivenList
    /\ Len(given.image.elements) >= 2
    /\ given.self \in InitializedInstances

MetadataRequested == req.op = "metadata"

\* C31: whenever a constructed model takes the per-file API path, the
\* metadata request carries a non-empty API key: under no settings does
\* construction succeed, the bulk source be unavailable and a metadata
\* request go out with an empty key.
C31_ApiPathHasApiKey ==
    (FetchCalled /\ ~BulkSourceAvailable /\ MetadataRequested) =>
        /\ Truthy(self.api_key)
        /\ Truthy(req.arg.api_key)

ModelTypeCalled == model # Unset /\ model.pc = "called"

\* the version info arrived and declares a model type
ModelTypeDeclared ==
    /\ given.reply.transport = "ok"
    /\ ~IsErrorStatus(given.reply.status)
    /\ given.reply.is_json
    /\ "version" \in given.reply.body.keys
    /\ "modelType" \in DOMAIN given.reply.body.version

\* the version info arrived and declares no model type
ModelTypeUndeclared ==
    /\ given.reply.transport = "ok"
    /\ ~IsErrorStatus(given.reply.status)
    /\ given.reply.is_json
    /\ "version" \in given.reply.body.keys
    /\ "modelType" \notin DOMAIN given.reply.body.version

HasDefaultModelType == given.project_task_type \in DOMAIN MODEL_TYPE_DEFAULTS

\* C32: get_roboflow_model_type returns the declared model type whenever
\* the version info declares one, whatever the project task type; with none
\* declared it returns the default of the task type, and it raises
\* MissingDefaultModelError only with none declared and no default.
C32_DeclaredModelTypeWins ==
    ModelTypeCalled =>
        /\ ModelTypeDeclared =>
              model.outcome = Return(given.reply.body.version["modelType"])
        /\ (ModelTypeUndeclared /\ HasDefaultModelType) =>
              model.outcome = Return(MODEL_TYPE_DEFAULTS[given.project_task_type])
        /\ (model.outcome.kind = "raise" /\ model.outcome.exc = "MissingDefaultModelError") =>
              (ModelTypeUndeclared /\ ~HasDefaultModelType)

====
